---- MODULE Spec2Model ----
(***************************************************************************)
(* A model of cmd/code2slides: the directive scanner (scanFile) and the     *)
(* writing of the scanned slides (processFile, writeSlideHTML, renderCode). *)
(*                                                                         *)
(* Go strings are modelled as sequences of symbols.  A symbol is either a  *)
(* single punctuation or whitespace character ("/", "*", "!", ".", " ",    *)
(* "\t", "\n", ...) or a run of letters written as one word ("code",       *)
(* "note", "x").  Byte offsets in the source are only ever taken across    *)
(* punctuation and whitespace, so they carry over to symbol offsets.       *)
(*                                                                         *)
(* After it come three programs of the slides, each with a specification   *)
(* of its own: the notification channel nc_2 (NotifySpec), send1 and send2 *)
(* (SendSpec) and the IDGenerator with a mutex (IDSpec).  RenderSpec runs  *)
(* processFile on scan results of one code line, EscapeSpec on code lines   *)
(* with the characters HTML escapes.  Then the WaitGroup built on a         *)
(* channel (WGSpec), the one built on an atomic counter (AtomicSpec), the   *)
(* counter under a mutex (CountSpec), run over several files (RunSpec) and  *)
(* the indentWriter on a file that fails (WriterSpec).                      *)
(***************************************************************************)
EXTENDS Integers, Sequences, FiniteSets, TLC

\* ---------------------------------------------------------------- bounds
\* Number of input lines of the scanned file.
MaxLines == 5
\* Number of lines accepted inside one open section.
MaxBlock == 3

\* ------------------------------------------------- package strings (Go)
SP == " "
TAB == "\t"
NL == "\n"
NUL == "NUL"

\* The cutset " \t" used by TrimLeft, TrimRight and IndexAny.
Blank == {SP, TAB}
\* unicode.IsSpace restricted to the symbols of the model.
WhiteSpace == {SP, TAB, NL}

RECURSIVE TrimLeft(_, _)
TrimLeft(s, cutset) ==
    IF s # <<>> /\ Head(s) \in cutset THEN TrimLeft(Tail(s), cutset) ELSE s

RECURSIVE TrimRight(_, _)
TrimRight(s, cutset) ==
    IF s # <<>> /\ s[Len(s)] \in cutset
    THEN TrimRight(SubSeq(s, 1, Len(s) - 1), cutset)
    ELSE s

TrimSpace(s) == TrimRight(TrimLeft(s, WhiteSpace), WhiteSpace)

HasPrefix(s, p) == Len(s) >= Len(p) /\ SubSeq(s, 1, Len(p)) = p

HasSuffix(s, p) == Len(s) >= Len(p) /\ SubSeq(s, Len(s) - Len(p) + 1, Len(s)) = p

TrimPrefix(s, p) == IF HasPrefix(s, p) THEN SubSeq(s, Len(p) + 1, Len(s)) ELSE s

TrimSuffix(s, p) == IF HasSuffix(s, p) THEN SubSeq(s, 1, Len(s) - Len(p)) ELSE s

\* 0-based index of the first occurrence of sub in s, or -1.
Index(s, sub) ==
    LET hits == {i \in 0..(Len(s) - Len(sub)) : SubSeq(s, i + 1, i + Len(sub)) = sub}
    IN IF hits = {} THEN -1 ELSE CHOOSE i \in hits : \A j \in hits : i <= j

\* 0-based index of the first symbol of s that is in chars, or -1.
IndexAny(s, chars) ==
    LET hits == {i \in 0..(Len(s) - 1) : s[i + 1] \in chars}
    IN IF hits = {} THEN -1 ELSE CHOOSE i \in hits : \A j \in hits : i <= j

\* strings.Cut: <<before, after, found>>.
Cut(s, sep) ==
    LET i == Index(s, sep)
    IN IF i >= 0
       THEN <<SubSeq(s, 1, i), SubSeq(s, i + Len(sep) + 1, Len(s)), TRUE>>
       ELSE <<s, <<>>, FALSE>>

\* filepath.Base for a path without trailing separators.
RECURSIVE Base(_)
Base(path) ==
    LET i == Index(path, <<"/">>)
    IN IF i < 0 THEN path ELSE Base(SubSeq(path, i + 2, Len(path)))

\* ------------------------------------------------------- section kinds
sectionUndefined == 0
sectionNote == 1
sectionCode == 2
sectionCodeBad == 3
sectionQuestion == 4
sectionAnswer == 5
sectionText == 6
sectionHTML == 7
sectionOutput == 8

\* func (k sectionKind) String() string
String(k) ==
    CASE k = sectionNote -> <<"note">>
      [] k = sectionCode -> <<"code">>
      [] k = sectionCodeBad -> <<"code", SP, "bad">>
      [] k = sectionQuestion -> <<"question">>
      [] k = sectionAnswer -> <<"answer">>
      [] k = sectionText -> <<"text">>
      [] k = sectionHTML -> <<"html">>
      [] k = sectionOutput -> <<"output">>
      [] OTHER -> <<"unknown">>

simpleKinds ==
    (<<"note">> :> sectionNote) @@ (<<"code">> :> sectionCode) @@
    (<<"output">> :> sectionOutput) @@ (<<"question">> :> sectionQuestion)

\* splitFirstWord: <<first, rest, ok>>.
splitFirstWord(s0) ==
    LET s == TrimSpace(s0)
    IN IF ~HasPrefix(s, <<"/", "/">>) /\ ~HasPrefix(s, <<"/", "*">>)
       THEN <<<<>>, <<>>, FALSE>>
       ELSE LET t == TrimSpace(SubSeq(s, 3, Len(s)))
                i == IndexAny(t, Blank)
            IN IF i < 0
               THEN <<t, <<>>, TRUE>>
               ELSE <<SubSeq(t, 1, i), TrimSpace(SubSeq(t, i + 2, Len(t))), TRUE>>

\* -------------------------------------------------- regexp (fragment)
\* Mutant of CompileOK: every pattern compiles.
CompileAny(pattern) == TRUE

\* The patterns of the model are literal words; a pattern holding an
\* unbalanced "(" is the one that regexp.Compile rejects.
CompileOK(pattern) == \A i \in 1..Len(pattern) : pattern[i] # "("

\* The "\x00em\x00" and "\x00/em\x00" markers.
emOpenMarker == <<NUL, "em", NUL>>
emCloseMarker == <<NUL, "/", "em", NUL>>

\* re.ReplaceAllStringFunc(codePart, wrap) for a literal pattern: every
\* leftmost non-overlapping match is wrapped in the two markers.
RECURSIVE ReplaceAllEm(_, _)
ReplaceAllEm(s, pattern) ==
    IF s = <<>> THEN <<>>
    ELSE IF pattern # <<>> /\ HasPrefix(s, pattern)
         THEN emOpenMarker \o pattern \o emCloseMarker
              \o ReplaceAllEm(SubSeq(s, Len(pattern) + 1, Len(s)), pattern)
         ELSE <<Head(s)>> \o ReplaceAllEm(Tail(s), pattern)

\* ------------------------------------------------------- the input file
filename == <<"testdata", "/", "valid.go">>

Directive(words) == <<"/", "/", SP>> \o words

L_note == Directive(<<"note">>)
L_endnote == Directive(<<"!", "note">>)
L_code == Directive(<<"code">>)
L_codebad == Directive(<<"code", SP, "bad">>)
L_endcode == Directive(<<"!", "code">>)
L_text == <<"/", "*", SP, "text">>
L_endtext == Directive(<<"!", "text">>)
L_textinline == Directive(<<"text", SP, "T">>)
L_output == Directive(<<"output">>)
L_endoutput == Directive(<<"!", "output">>)
L_question == Directive(<<"question">>)
L_answer == Directive(<<"answer">>)
L_endquestion == Directive(<<"!", "question">>)
L_heading == Directive(<<"heading", SP, "H">>)
L_heading0 == Directive(<<"heading">>)
L_headingG == Directive(<<"heading", SP, "G">>)
L_problem == Directive(<<"problem">>)
L_html == Directive(<<"html", SP, "<p>">>)
L_div_a == Directive(<<"div", ".", "a">>)
L_div_b == Directive(<<"div", ".", "b">>)
L_enddiv_a == Directive(<<"!", "div", ".", "a">>)
L_enddiv_b == Directive(<<"!", "div", ".", "b">>)
L_blockend == <<"*", "/">>
L_blank == <<>>
L_bare == <<"/", "/">>
L_plain == <<"x">>
L_comment == Directive(<<"para">>)
L_em == <<TAB, "/", "/", SP, "em">>
L_endem == <<TAB, "/", "/", SP, "!", "em">>
L_emtight == <<"/", "/", "em">>
L_inlineem == <<"x", SP, "/", "/", SP, "em", SP, "x">>
L_badem == <<"x", SP, "/", "/", SP, "em", SP, "(">>

OpenerLines == {L_note, L_code, L_codebad, L_text, L_output, L_question}
CloserLines == {L_endnote, L_endcode, L_endtext, L_endoutput, L_endquestion}
ImmediateLines ==
    {L_textinline, L_heading, L_heading0, L_headingG, L_problem, L_html, L_answer,
     L_div_a, L_div_b, L_enddiv_a, L_enddiv_b}
\* Lines that carry no directive keyword and no emphasis annotation.
PlainLines == {L_blank, L_bare, L_plain, L_comment}
EmLines == {L_em, L_endem, L_emtight, L_inlineem, L_badem}

Lines == OpenerLines \cup CloserLines \cup ImmediateLines \cup PlainLines
         \cup EmLines \cup {L_blockend}

\* ------------------------------------------------------------- state
VARIABLES
    slides,    \* scanFile: the finalized slides
    slide,     \* scanFile: the slide in progress
    current,   \* scanFile: the accumulation buffer (strings.Builder)
    kind,      \* scanFile: the open section kind, sectionUndefined if none
    divClass,  \* scanFile: the active div class, <<>> if none
    lineNum,   \* scanFile: number of lines read
    pc,        \* "scan" inside the loop of scanFile, "returned" after scanFile
               \* returned, "written" or "failed" after processFile returned
    err,       \* the error scanFile returned, NoError if none
    result,    \* the slide list scanFile returned, <<>> for nil
    out,       \* processFile: what has been written to the indentWriter
    block,     \* history: the lines read since the open section was opened
    openedAt,  \* history: the sections the file had when it was opened
    capacity,  \* notifications: cap(nc_2)
    nc_2,      \* notifications: the strings in the buffer of the channel nc_2
    ncall,     \* notifications: the call each goroutine is in, and its argument
    events,    \* history: the selects executed, in order, with what they did
    fn,        \* send1/send2: the function that runs
    c_chan,    \* send1/send2: the channel c: closed, and who waits on it
    wg,        \* send1/send2: the counter of the WaitGroup
    spc,       \* send1/send2: the position of main and of the three goroutines
    recvd,     \* send1/send2: the value each receiving goroutine got from c
    stdout,    \* send1/send2: the lines printed
    mu,        \* IDGenerator: the goroutine that holds g.mu, <<>> if none
    num,       \* IDGenerator: g.num
    ipc,       \* IDGenerator: the position of each goroutine in NewID
    loaded,    \* IDGenerator: the value of g.num a goroutine read for g.num++
    ids,       \* IDGenerator: the IDs NewID produced, in order
    g_mu,      \* WaitGroup: the set of the process that holds g.mu, {} if none
    g_count,   \* WaitGroup: g.count
    g_done,    \* WaitGroup: g.done, the number of a channel, NilChan for nil
    chans,     \* WaitGroup: for each channel made, how often it was closed
    wpc,       \* WaitGroup: the position of main and of each goroutine
    local_c,   \* WaitGroup: c := g.count.Add(n) of each process
    wait_d,    \* WaitGroup: the channel main's Wait receives from
    views,     \* WaitGroup: the values of g.done a read without the lock
               \* by main may return (every write main did not wait for)
    m_mu,      \* counter: the set of the goroutine that holds mu, {} if none
    c_var,     \* counter: the variable c
    cpc,       \* counter: the position of main and of the two goroutines
    R0,        \* counter: the register each goroutine loads c into for c++
    iters,     \* counter: the iterations of the loop each goroutine has done
    sync_wg,   \* counter: the counter of the sync.WaitGroup
    printed,   \* counter: what fmt.Println(c) printed
    iw,        \* run: the indentWriter, with the file it writes to
    ret,       \* run: what the last call of indentWriter.Write returned
    inputs,    \* run: what scanFile returns for each of the files, in order
    nextFile,  \* run: the position of the loop over the files
    run_page,  \* run: the variable pageNum
    rpc,       \* run: the position of run
    runErr     \* run: the error run returned

\* The variables of cmd/code2slides, of the notification channel, of
\* send1/send2 and of the IDGenerator.
scanVars ==
    <<slides, slide, current, kind, divClass, lineNum, pc, err, result, out,
      block, openedAt>>
notifyVars == <<capacity, nc_2, ncall, events>>
sendVars == <<fn, c_chan, wg, spc, recvd, stdout>>
idVars == <<mu, num, ipc, loaded, ids>>
wgVars == <<g_mu, g_count, g_done, chans, wpc, local_c, wait_d, views>>
\* The variables of the programs modelled after the IDGenerator.
countVars == <<m_mu, c_var, cpc, R0, iters, sync_wg, printed>>
runVars == <<iw, ret, inputs, nextFile, run_page, rpc, runErr>>
later == <<wgVars, countVars, runVars>>
\* For each of these programs, the variables of the other two.
besideWG == <<countVars, runVars>>
besideCount == <<wgVars, runVars>>
besideRun == <<wgVars, countVars>>
\* The variables a step of cmd/code2slides leaves alone.
others == <<notifyVars, sendVars, idVars, later>>
vars == <<scanVars, notifyVars, sendVars, idVars, later>>

\* A program of the module that is not the one running.
NotifyIdle == capacity = 0 /\ nc_2 = <<>> /\ ncall = <<>> /\ events = <<>>
SendIdle ==
    fn = "" /\ c_chan = <<>> /\ wg = 0 /\ spc = <<>> /\ recvd = <<>> /\ stdout = <<>>
IDIdle == mu = <<>> /\ num = 0 /\ ipc = <<>> /\ loaded = <<>> /\ ids = <<>>
WGIdle ==
    /\ g_mu = {} /\ g_count = 0 /\ g_done = 0 /\ chans = <<>> /\ wpc = <<>>
    /\ local_c = <<>> /\ wait_d = 0 /\ views = {}
\* The programs modelled after the IDGenerator do not run.
CountIdle ==
    /\ m_mu = {} /\ c_var = 0 /\ cpc = <<>> /\ R0 = <<>> /\ iters = <<>>
    /\ sync_wg = 0 /\ printed = <<>>
RunIdle ==
    /\ iw = <<>> /\ ret = <<>> /\ inputs = <<>> /\ nextFile = 0 /\ run_page = 0
    /\ rpc = "" /\ runErr = <<>>
LaterIdle == WGIdle /\ CountIdle /\ RunIdle

NoError == [filename |-> <<>>, lineNum |-> 0, msg |-> <<>>]

\* The deferred wrapper fmt.Errorf("%s:%d: %v", filename, lineNum, err).
WrapError(n, msg) == [filename |-> filename, lineNum |-> n, msg |-> msg]

\* The %q verb for a class name of letters.
Quote(c) == <<"\"">> \o c \o <<"\"">>

NewSlide(h) == [heading |-> h, problem |-> FALSE, sections |-> <<>>]

\* add := func(k sectionKind, c string)
add(s, k, c) == [s EXCEPT !.sections = Append(@, [kind |-> k, content |-> c])]

\* addCurrent := func(k sectionKind): the slide after the call; the buffer
\* is empty after it in both cases.
addCurrent(s, k) == IF Len(current) > 0 THEN add(s, k, current) ELSE s

Init ==
    /\ NotifyIdle /\ SendIdle /\ IDIdle /\ LaterIdle
    /\ slides = <<>>
    /\ slide = NewSlide(Base(filename))
    /\ current = <<>>
    /\ kind = sectionUndefined
    /\ divClass = <<>>
    /\ lineNum = 0
    /\ pc = "scan"
    /\ err = NoError
    /\ result = <<>>
    /\ out = <<>>
    /\ block = <<>>
    /\ openedAt = 0

\* The locals of scanFile do not outlive its return: after it the model
\* keeps only what the caller receives (result, err) and the line count.
LocalsGone ==
    /\ slides' = <<>>
    /\ slide' = NewSlide(<<>>)
    /\ current' = <<>>
    /\ kind' = sectionUndefined
    /\ divClass' = <<>>
    /\ block' = <<>>
    /\ openedAt' = 0

\* return nil, err at line number n.
Fail(n, msg) ==
    /\ pc' = "returned"
    /\ err' = WrapError(n, msg)
    /\ result' = <<>>
    /\ out' = out
    /\ UNCHANGED others
    /\ LocalsGone

\* for scanner.Scan() { lineNum++; line := scanner.Text() ...
ReadLine ==
    /\ pc = "scan"
    /\ lineNum < MaxLines
    /\ lineNum' = lineNum + 1

\* first, rest, _ := splitFirstWord(line), tabulated once over the lines of
\* the model.
SplitTable == [l \in Lines |-> splitFirstWord(l)]
first(line) == SplitTable[line][1]
rest(line) == SplitTable[line][2]
\* d, c, ok := strings.Cut(first, "."), tabulated likewise.
CutTable == [l \in Lines |-> Cut(SplitTable[l][1], <<".">>)]

\* History of the open section: a line that leaves the section open.
\* The bounded files leave room for a closing line after every line that
\* leaves a section open.
RoomToClose == lineNum + 1 < MaxLines
InBlockBound == kind # sectionUndefined => (Len(block) < MaxBlock /\ RoomToClose)
Enclosed(line) == IF kind = sectionUndefined THEN <<>> ELSE Append(block, line)
RECURSIVE CountSections(_)
CountSections(ss) ==
    IF ss = <<>> THEN 0 ELSE Len(Head(ss).sections) + CountSections(Tail(ss))
\* The sections recorded so far, over the finalized slides and the current one.
TotalSections == CountSections(slides) + Len(slide.sections)
\* The history when a section is opened with n sections recorded, when the
\* scanner is idle after the line, and when the line leaves the state open.
HistOpen(n) == block' = <<>> /\ openedAt' = n
HistIdle == block' = <<>> /\ openedAt' = 0
HistKeep(line) == block' = Enclosed(line) /\ openedAt' = openedAt

\* The branch of the loop body a line takes: the code tests, in this order,
\* "code bad", simpleKinds, the switch on first, div, !div, and last the
\* switch on line.
dispatch(line) ==
    LET f == SplitTable[line][1]
        r == SplitTable[line][2]
        cut == CutTable[line]
    IN IF f = <<"code">> /\ r = <<"bad">> THEN "code bad"
       ELSE IF f \in DOMAIN simpleKinds THEN "simpleKinds"
       ELSE IF f = <<"heading">> THEN "heading"
       ELSE IF f = <<"problem">> THEN "problem"
       ELSE IF f = <<"text">> THEN "text"
       ELSE IF f = <<"html">> THEN "html"
       ELSE IF f = <<"!", "code">> THEN "!code"
       ELSE IF f = <<"!", "note">> THEN "!note"
       ELSE IF f = <<"!", "text">> THEN "!text"
       ELSE IF f = <<"!", "output">> THEN "!output"
       ELSE IF f = <<"answer">> THEN "answer"
       ELSE IF f = <<"!", "question">> THEN "!question"
       ELSE IF cut[3] /\ cut[1] = <<"div">> THEN "div"
       ELSE IF cut[3] /\ cut[1] = <<"!", "div">> THEN "!div"
       ELSE "line"
DispatchTable == [l \in Lines |-> dispatch(l)]
IsCase(line, w) == DispatchTable[line] = w
IsCodeBad(line) == IsCase(line, "code bad")
IsSimpleKind(line) == IsCase(line, "simpleKinds")
IsDiv(line) == IsCase(line, "div")
IsEndDiv(line) == IsCase(line, "!div")
\* The switch on line is reached.
IsContent(line) == IsCase(line, "line")

\* Mutant of OpenCodeBad: the section is opened with the kind Code.
OpenCodeBadAsCode(line) ==
    /\ ReadLine
    /\ IsCodeBad(line)
    /\ IF kind # sectionUndefined
       THEN Fail(lineNum + 1, <<"code", SP, "bad", " inside ">> \o String(kind))
       ELSE /\ RoomToClose
            /\ kind' = sectionCode
            /\ HistOpen(TotalSections)
            /\ UNCHANGED <<slides, slide, current, divClass, pc, err, result, out, others>>

\* if first == "code" && rest == "bad"
OpenCodeBad(line) ==
    /\ ReadLine
    /\ IsCodeBad(line)
    /\ IF kind # sectionUndefined
       THEN Fail(lineNum + 1, <<"code", SP, "bad", " inside ">> \o String(kind))
       ELSE /\ RoomToClose
            /\ kind' = sectionCodeBad
            /\ HistOpen(TotalSections)
            /\ UNCHANGED <<slides, slide, current, divClass, pc, err, result, out, others>>

\* Mutant of OpenSimple: the test that no section is open is missing.
OpenSimpleUnchecked(line) ==
    /\ ReadLine
    /\ IsSimpleKind(line)
    /\ RoomToClose
    /\ kind' = simpleKinds[first(line)]
    /\ HistOpen(TotalSections)
    /\ UNCHANGED <<slides, slide, current, divClass, pc, err, result, out, others>>

\* if sec, ok := simpleKinds[first]; ok
OpenSimple(line) ==
    /\ ReadLine
    /\ IsSimpleKind(line)
    /\ LET sec == simpleKinds[first(line)]
       IN IF kind # sectionUndefined
          THEN Fail(lineNum + 1, String(sec) \o <<" inside ">> \o String(kind))
          ELSE /\ RoomToClose
               /\ kind' = sec
               /\ HistOpen(TotalSections)
               /\ UNCHANGED <<slides, slide, current, divClass, pc, err, result, out, others>>

\* Mutant of Heading: the slide in progress is finalized also when it has no
\* section.
HeadingAlwaysNew(line) ==
    /\ ReadLine
    /\ IsCase(line, "heading")
    /\ IF rest(line) = <<>>
       THEN Fail(lineNum + 1, <<"missing heading">>)
       ELSE /\ InBlockBound
            /\ slides' = Append(slides, slide)
            /\ slide' = [NewSlide(<<>>) EXCEPT !.heading = rest(line)]
            /\ HistKeep(line)
            /\ UNCHANGED <<current, kind, divClass, pc, err, result, out, others>>

\* Mutant of Heading: the slide in progress is replaced, not kept.
HeadingDropsSlide(line) ==
    /\ ReadLine
    /\ IsCase(line, "heading")
    /\ IF rest(line) = <<>>
       THEN Fail(lineNum + 1, <<"missing heading">>)
       ELSE /\ InBlockBound
            /\ slides' = slides
            /\ slide' = [NewSlide(<<>>) EXCEPT !.heading = rest(line)]
            /\ HistKeep(line)
            /\ UNCHANGED <<current, kind, divClass, pc, err, result, out, others>>

\* case "heading"
Heading(line) ==
    /\ ReadLine
    /\ IsCase(line, "heading")
    /\ IF rest(line) = <<>>
       THEN Fail(lineNum + 1, <<"missing heading">>)
       ELSE /\ InBlockBound
            /\ IF Len(slide.sections) > 0
               THEN /\ slides' = Append(slides, slide)
                    /\ slide' = [NewSlide(<<>>) EXCEPT !.heading = rest(line)]
               ELSE /\ slides' = slides
                    /\ slide' = [slide EXCEPT !.heading = rest(line)]
            /\ HistKeep(line)
            /\ UNCHANGED <<current, kind, divClass, pc, err, result, out, others>>

\* case "problem"
Problem(line) ==
    /\ ReadLine
    /\ IsCase(line, "problem")
    /\ Fail(lineNum + 1, <<"'problem' temporarily not supported">>)

\* Mutant of Text: the inline form leaves a Text section open.
TextInlineOpens(line) ==
    /\ ReadLine
    /\ IsCase(line, "text")
    /\ IF kind # sectionUndefined
       THEN Fail(lineNum + 1, <<"text", " inside ">> \o String(kind))
       ELSE /\ RoomToClose
            /\ slide' = IF rest(line) # <<>>
                        THEN add(slide, sectionText, rest(line) \o <<NL>>)
                        ELSE slide
            /\ kind' = sectionText
            /\ HistOpen(TotalSections)
            /\ UNCHANGED <<slides, current, divClass, pc, err, result, out, others>>

\* case "text"
Text(line) ==
    /\ ReadLine
    /\ IsCase(line, "text")
    /\ IF kind # sectionUndefined
       THEN Fail(lineNum + 1, <<"text", " inside ">> \o String(kind))
       ELSE /\ IF rest(line) # <<>>
               THEN /\ slide' = add(slide, sectionText, rest(line) \o <<NL>>)
                    /\ kind' = kind
                    /\ HistIdle
               ELSE /\ RoomToClose
                    /\ slide' = slide
                    /\ kind' = sectionText
                    /\ HistOpen(TotalSections)
            /\ UNCHANGED <<slides, current, divClass, pc, err, result, out, others>>

\* case "html"
Html(line) ==
    /\ ReadLine
    /\ IsCase(line, "html")
    /\ InBlockBound
    /\ slide' = add(slide, sectionHTML, rest(line))
    /\ HistKeep(line)
    /\ UNCHANGED <<slides, current, kind, divClass, pc, err, result, out, others>>

\* Mutant of EndCode: the buffer is recorded without trimming its last
\* newline.
EndCodeNoTrim(line) ==
    /\ ReadLine
    /\ IsCase(line, "!code")
    /\ IF kind # sectionCode /\ kind # sectionCodeBad
       THEN Fail(lineNum + 1, <<"!", "code", " without matching ", "code">>)
       ELSE /\ slide' = add(slide, kind, current)
            /\ current' = <<>>
            /\ kind' = sectionUndefined
            /\ HistIdle
            /\ UNCHANGED <<slides, divClass, pc, err, result, out, others>>

\* case "!code"
EndCode(line) ==
    /\ ReadLine
    /\ IsCase(line, "!code")
    /\ IF kind # sectionCode /\ kind # sectionCodeBad
       THEN Fail(lineNum + 1, <<"!", "code", " without matching ", "code">>)
       ELSE /\ slide' = add(slide, kind, TrimSuffix(current, <<NL>>))
            /\ current' = <<>>
            /\ kind' = sectionUndefined
            /\ HistIdle
            /\ UNCHANGED <<slides, divClass, pc, err, result, out, others>>

\* Mutant of EndNote: the buffer is not reset when the note is closed.
EndNoteKeepsBuffer(line) ==
    /\ ReadLine
    /\ IsCase(line, "!note")
    /\ IF kind # sectionNote
       THEN Fail(lineNum + 1, <<"!", "note", " without matching ", "note">>)
       ELSE /\ slide' = addCurrent(slide, sectionNote)
            /\ current' = current
            /\ kind' = sectionUndefined
            /\ HistIdle
            /\ UNCHANGED <<slides, divClass, pc, err, result, out, others>>

\* case "!note"
EndNote(line) ==
    /\ ReadLine
    /\ IsCase(line, "!note")
    /\ IF kind # sectionNote
       THEN Fail(lineNum + 1, <<"!", "note", " without matching ", "note">>)
       ELSE /\ slide' = addCurrent(slide, sectionNote)
            /\ current' = <<>>
            /\ kind' = sectionUndefined
            /\ HistIdle
            /\ UNCHANGED <<slides, divClass, pc, err, result, out, others>>

\* case "!text"
EndText(line) ==
    /\ ReadLine
    /\ IsCase(line, "!text")
    /\ IF kind # sectionText
       THEN Fail(lineNum + 1, <<"!", "text", " without matching ", "text">>)
       ELSE /\ slide' = addCurrent(slide, sectionText)
            /\ current' = <<>>
            /\ kind' = sectionUndefined
            /\ HistIdle
            /\ UNCHANGED <<slides, divClass, pc, err, result, out, others>>

\* case "!output"
EndOutput(line) ==
    /\ ReadLine
    /\ IsCase(line, "!output")
    /\ IF kind # sectionOutput
       THEN Fail(lineNum + 1, <<"output", " inside ">> \o String(kind))
       ELSE /\ slide' = addCurrent(slide, sectionOutput)
            /\ current' = <<>>
            /\ kind' = sectionUndefined
            /\ HistIdle
            /\ UNCHANGED <<slides, divClass, pc, err, result, out, others>>

\* Mutant of Answer: the scanner returns to idle after the question text is
\* recorded.
AnswerToIdle(line) ==
    /\ ReadLine
    /\ IsCase(line, "answer")
    /\ IF kind # sectionQuestion
       THEN Fail(lineNum + 1, <<"answer", " without matching ", "question">>)
       ELSE /\ slide' = addCurrent(slide, sectionQuestion)
            /\ current' = <<>>
            /\ kind' = sectionUndefined
            /\ HistIdle
            /\ UNCHANGED <<slides, divClass, pc, err, result, out, others>>

\* case "answer"
Answer(line) ==
    /\ ReadLine
    /\ IsCase(line, "answer")
    /\ IF kind # sectionQuestion
       THEN Fail(lineNum + 1, <<"answer", " without matching ", "question">>)
       ELSE /\ RoomToClose
            /\ slide' = addCurrent(slide, sectionQuestion)
            /\ current' = <<>>
            /\ kind' = sectionAnswer
            /\ HistOpen(TotalSections + (IF Len(current) > 0 THEN 1 ELSE 0))
            /\ UNCHANGED <<slides, divClass, pc, err, result, out, others>>

\* Mutant of EndQuestion: the Question state is closed like the Answer state.
EndQuestionNoAnswer(line) ==
    /\ ReadLine
    /\ IsCase(line, "!question")
    /\ IF kind # sectionQuestion /\ kind # sectionAnswer
       THEN Fail(lineNum + 1, <<"!", "question", " without matching ", "question">>)
       ELSE /\ slide' = addCurrent(slide, kind)
            /\ current' = <<>>
            /\ kind' = sectionUndefined
            /\ HistIdle
            /\ UNCHANGED <<slides, divClass, pc, err, result, out, others>>

\* case "!question"
EndQuestion(line) ==
    /\ ReadLine
    /\ IsCase(line, "!question")
    /\ IF kind # sectionQuestion /\ kind # sectionAnswer
       THEN Fail(lineNum + 1, <<"!", "question", " without matching ", "question">>)
       ELSE IF kind = sectionQuestion
            THEN Fail(lineNum + 1, <<"!", "question", " without ", "answer">>)
            ELSE /\ slide' = addCurrent(slide, sectionAnswer)
                 /\ current' = <<>>
                 /\ kind' = sectionUndefined
                 /\ HistIdle
                 /\ UNCHANGED <<slides, divClass, pc, err, result, out, others>>

\* if d == "div"
Div(line) ==
    /\ ReadLine
    /\ IsDiv(line)
    /\ InBlockBound
    /\ LET c == CutTable[line][2]
       IN /\ slide' = add(slide, sectionHTML, <<"<div class=">> \o Quote(c) \o <<">">>)
          /\ divClass' = c
    /\ HistKeep(line)
    /\ UNCHANGED <<slides, current, kind, pc, err, result, out, others>>

\* Mutant of EndDiv: the class is not compared with the active class.
EndDivUnchecked(line) ==
    /\ ReadLine
    /\ IsEndDiv(line)
    /\ InBlockBound
    /\ slide' = add(slide, sectionHTML, <<"</div> <!-- ">> \o CutTable[line][2] \o <<" -->">>)
    /\ divClass' = <<>>
    /\ HistKeep(line)
    /\ UNCHANGED <<slides, current, kind, pc, err, result, out, others>>

\* else if d == "!div"
EndDiv(line) ==
    /\ ReadLine
    /\ IsEndDiv(line)
    /\ LET c == CutTable[line][2]
       IN IF c # divClass
          THEN Fail(lineNum + 1,
                    <<"mismatched div class: start ">> \o Quote(divClass)
                    \o <<", end ">> \o Quote(c))
          ELSE /\ InBlockBound
               /\ slide' = add(slide, sectionHTML, <<"</div> <!-- ">> \o c \o <<" -->">>)
               /\ divClass' = <<>>
               /\ HistKeep(line)
               /\ UNCHANGED <<slides, current, kind, pc, err, result, out, others>>

\* Mutant of BlockCommentEnd: the line closes every open section that is not
\* a code block.
BlockCommentEndAnyBlock(line) ==
    /\ ReadLine
    /\ IsContent(line)
    /\ line = <<"*", "/">>
    /\ kind # sectionUndefined
    /\ kind # sectionCode /\ kind # sectionCodeBad
    /\ slide' = addCurrent(slide, sectionText)
    /\ current' = <<>>
    /\ kind' = sectionUndefined
    /\ HistIdle
    /\ UNCHANGED <<slides, divClass, pc, err, result, out, others>>

\* switch line { case "*/": if kind == sectionText
BlockCommentEnd(line) ==
    /\ ReadLine
    /\ IsContent(line)
    /\ line = <<"*", "/">>
    /\ kind = sectionText
    /\ slide' = addCurrent(slide, sectionText)
    /\ current' = <<>>
    /\ kind' = sectionUndefined
    /\ HistIdle
    /\ UNCHANGED <<slides, divClass, pc, err, result, out, others>>

\* The default case of the switch on line is reached (also by fallthrough).
IsOrdinary(line) == IsContent(line) /\ ~(line = <<"*", "/">> /\ kind = sectionText)
InCode == kind = sectionCode \/ kind = sectionCodeBad
\* trimmed := strings.TrimLeft(line, " \t"), tabulated.
TrimmedTable == [l \in Lines |-> TrimLeft(l, Blank)]
trimmed(line) == TrimmedTable[line]
emDirective == <<"/", "/", SP, "em">>
endEmDirective == <<"/", "/", SP, "!", "em">>
inlineEm == <<"/", "/", SP, "em", SP>>
\* pattern := strings.TrimSpace(line[idx+len("// em "):])
PatternTable ==
    [l \in Lines |->
        LET idx == Index(l, inlineEm)
        IN IF idx < 0 THEN <<>>
           ELSE TrimSpace(SubSeq(l, idx + Len(inlineEm) + 1, Len(l)))]
emPattern(line) == PatternTable[line]
\* idx >= 0 and pattern != ""
HasInlineEm(line) == emPattern(line) # <<>>

\* case "// em"
CodeEm(line) ==
    /\ ReadLine
    /\ IsOrdinary(line)
    /\ InCode
    /\ trimmed(line) = emDirective
    /\ InBlockBound
    /\ current' = current \o emOpenMarker
    /\ HistKeep(line)
    /\ UNCHANGED <<slides, slide, kind, divClass, pc, err, result, out, others>>

\* Mutant of CodeEndEm: the close marker is written after the whole buffer.
CodeEndEmNoTrim(line) ==
    /\ ReadLine
    /\ IsOrdinary(line)
    /\ InCode
    /\ trimmed(line) = endEmDirective
    /\ InBlockBound
    /\ current' = current \o emCloseMarker \o <<NL>>
    /\ HistKeep(line)
    /\ UNCHANGED <<slides, slide, kind, divClass, pc, err, result, out, others>>

\* case "// !em"
CodeEndEm(line) ==
    /\ ReadLine
    /\ IsOrdinary(line)
    /\ InCode
    /\ trimmed(line) = endEmDirective
    /\ InBlockBound
    /\ current' = TrimSuffix(current, <<NL>>) \o emCloseMarker \o <<NL>>
    /\ HistKeep(line)
    /\ UNCHANGED <<slides, slide, kind, divClass, pc, err, result, out, others>>

\* Mutant of CodeInlineEm: the annotated line is stored like any code line.
CodeInlineEmKept(line) ==
    /\ ReadLine
    /\ IsOrdinary(line)
    /\ InCode
    /\ trimmed(line) # emDirective
    /\ trimmed(line) # endEmDirective
    /\ HasInlineEm(line)
    /\ InBlockBound
    /\ current' = current \o line \o <<NL>>
    /\ HistKeep(line)
    /\ UNCHANGED <<slides, slide, kind, divClass, pc, err, result, out, others>>

\* default: if idx := strings.Index(line, "// em "); idx >= 0 { if pattern != ""
CodeInlineEm(line) ==
    /\ ReadLine
    /\ IsOrdinary(line)
    /\ InCode
    /\ trimmed(line) # emDirective
    /\ trimmed(line) # endEmDirective
    /\ HasInlineEm(line)
    /\ IF ~CompileOK(emPattern(line))
       THEN Fail(lineNum + 1,
                 <<"invalid em regexp ">> \o Quote(emPattern(line))
                 \o <<": ">> \o <<"error parsing regexp">>)
       ELSE /\ InBlockBound
            /\ LET codePart == TrimRight(SubSeq(line, 1, Index(line, inlineEm)), Blank)
               IN current' = current \o ReplaceAllEm(codePart, emPattern(line)) \o <<NL>>
            /\ HistKeep(line)
            /\ UNCHANGED <<slides, slide, kind, divClass, pc, err, result, out, others>>

\* current.WriteString(line); current.WriteByte('\n')
CodeLine(line) ==
    /\ ReadLine
    /\ IsOrdinary(line)
    /\ InCode
    /\ trimmed(line) # emDirective
    /\ trimmed(line) # endEmDirective
    /\ ~HasInlineEm(line)
    /\ InBlockBound
    /\ current' = current \o line \o <<NL>>
    /\ HistKeep(line)
    /\ UNCHANGED <<slides, slide, kind, divClass, pc, err, result, out, others>>

\* Mutant of stripComment: the text is not trimmed after the prefix is cut.
stripCommentNoTrim(line) == TrimPrefix(line, <<"/", "/">>)

\* text := strings.TrimSpace(strings.TrimPrefix(line, "//"))
stripComment(line) == TrimSpace(TrimPrefix(line, <<"/", "/">>))

\* Mutant of TextLine: a blank line or bare comment opener flushes the
\* buffer as a section instead of being appended.
TextLineFlush(line) ==
    /\ ReadLine
    /\ IsOrdinary(line)
    /\ ~InCode
    /\ kind # sectionUndefined
    /\ line \notin EmLines
    /\ InBlockBound
    /\ IF line = <<>> \/ line = <<"/", "/">>
       THEN /\ slide' = addCurrent(slide, kind)
            /\ current' = <<>>
       ELSE /\ slide' = slide
            /\ current' = current \o TrimSpace(TrimPrefix(line, <<"/", "/">>)) \o <<NL>>
    /\ HistKeep(line)
    /\ UNCHANGED <<slides, kind, divClass, pc, err, result, out, others>>

\* else if kind != sectionUndefined
\* The bounded files carry emphasis annotations only outside text sections,
\* where they are text like any other comment line.
TextLine(line) ==
    /\ ReadLine
    /\ IsOrdinary(line)
    /\ ~InCode
    /\ kind # sectionUndefined
    /\ line \notin EmLines
    /\ InBlockBound
    /\ current' = current \o stripComment(line) \o <<NL>>
    /\ HistKeep(line)
    /\ UNCHANGED <<slides, slide, kind, divClass, pc, err, result, out, others>>

\* Mutant of IdleLine: the line is appended to the buffer as if a text
\* section were open.
IdleLineAppends(line) ==
    /\ ReadLine
    /\ IsOrdinary(line)
    /\ kind = sectionUndefined
    /\ current' = current \o stripComment(line) \o <<NL>>
    /\ UNCHANGED <<slides, slide, kind, divClass, pc, err, result, out, block, openedAt, others>>

\* A line outside every section that carries no directive: ignored.
IdleLine(line) ==
    /\ ReadLine
    /\ IsOrdinary(line)
    /\ kind = sectionUndefined
    /\ UNCHANGED <<slides, slide, current, kind, divClass, pc, err, result, out, block, openedAt, others>>

\* Mutant of EndOfInput: the active div class is not examined.
EndOfInputNoDiv ==
    /\ pc = "scan"
    /\ IF kind # sectionUndefined
       THEN /\ Fail(lineNum, <<"unclosed ">> \o String(kind) \o <<" section">>)
            /\ UNCHANGED lineNum
       ELSE /\ result' = Append(slides, slide)
            /\ pc' = "returned"
            /\ LocalsGone
            /\ UNCHANGED <<lineNum, err, out, others>>

\* Mutant of EndOfInput: a last slide without sections is not appended.
EndOfInputDropEmpty ==
    /\ pc = "scan"
    /\ IF kind # sectionUndefined
       THEN /\ Fail(lineNum, <<"unclosed ">> \o String(kind) \o <<" section">>)
            /\ UNCHANGED lineNum
       ELSE IF divClass # <<>>
            THEN /\ Fail(lineNum, <<"unclosed div with class ">> \o Quote(divClass))
                 /\ UNCHANGED lineNum
            ELSE /\ result' = IF slide.sections = <<>> THEN slides
                                ELSE Append(slides, slide)
                 /\ pc' = "returned"
                 /\ LocalsGone
                 /\ UNCHANGED <<lineNum, err, out, others>>

\* The statements after the loop, once scanner.Scan() has returned false at
\* the end of the input.
EndOfInput ==
    /\ pc = "scan"
    /\ IF kind # sectionUndefined
       THEN /\ Fail(lineNum, <<"unclosed ">> \o String(kind) \o <<" section">>)
            /\ UNCHANGED lineNum
       ELSE IF divClass # <<>>
            THEN /\ Fail(lineNum, <<"unclosed div with class ">> \o Quote(divClass))
                 /\ UNCHANGED lineNum
            ELSE /\ result' = Append(slides, slide)
                 /\ pc' = "returned"
                 /\ LocalsGone
                 /\ UNCHANGED <<lineNum, err, out, others>>

\* scanner.Scan() returns false because the next line does not fit the
\* scanner's buffer (bufio.ErrTooLong): the line is not counted, and the
\* statement after the loop returns scanner.Err().
ScannerErr ==
    /\ pc = "scan"
    /\ lineNum < MaxLines
    /\ Fail(lineNum, <<"bufio.Scanner: token too long">>)
    /\ UNCHANGED lineNum

\* One iteration of the loop over the lines of the file.
ScanLine(line) ==
    \/ OpenCodeBad(line)
    \/ OpenSimple(line)
    \/ Heading(line)
    \/ Problem(line)
    \/ Text(line)
    \/ Html(line)
    \/ EndCode(line)
    \/ EndNote(line)
    \/ EndText(line)
    \/ EndOutput(line)
    \/ Answer(line)
    \/ EndQuestion(line)
    \/ Div(line)
    \/ EndDiv(line)
    \/ BlockCommentEnd(line)
    \/ CodeEm(line)
    \/ CodeEndEm(line)
    \/ CodeInlineEm(line)
    \/ CodeLine(line)
    \/ TextLine(line)
    \/ IdleLine(line)

\* ------------------------------------------------------------ rendering
\* strings.ReplaceAll for a non-empty old.
RECURSIVE ReplaceAll(_, _, _)
ReplaceAll(s, old, new) ==
    IF s = <<>> THEN <<>>
    ELSE IF HasPrefix(s, old)
         THEN new \o ReplaceAll(SubSeq(s, Len(old) + 1, Len(s)), old, new)
         ELSE <<Head(s)>> \o ReplaceAll(Tail(s), old, new)

\* strings.Split: the pieces of s between the occurrences of sep.
RECURSIVE Split(_, _)
Split(s, sep) ==
    LET i == Index(s, sep)
    IN IF i < 0 THEN <<s>>
       ELSE <<SubSeq(s, 1, i)>> \o Split(SubSeq(s, i + Len(sep) + 1, Len(s)), sep)

\* Mutant of EscapeString: the text is written as it is.
EscapeNothing(s) == s

\* html.EscapeString: the five special characters and their entities.
EscapeTable ==
    ("<" :> "&lt;") @@ (">" :> "&gt;") @@ ("&" :> "&amp;") @@
    ("'" :> "&#39;") @@ ("\"" :> "&#34;")
RECURSIVE EscapeString(_)
EscapeString(s) ==
    IF s = <<>> THEN <<>>
    ELSE <<IF Head(s) \in DOMAIN EscapeTable THEN EscapeTable[Head(s)] ELSE Head(s)>>
         \o EscapeString(Tail(s))

\* identRe, [a-zA-Z_][a-zA-Z0-9_]*, over symbols: a run of letters, a run of
\* digits and the underscore are the symbols an identifier is made of; every
\* other symbol of the model is in NotIdent.
DigitRuns == {"0", "1", "2", "3"}
NotIdent ==
    {SP, TAB, NL, NUL, "/", "*", "!", "(", ")", "[", "]", "{", "}", "<", ">", "&",
     "'", "\"", ".", ",", ":", "=", "-", "+"}
IdentPart(a) == a \notin NotIdent
IdentStart(a) == IdentPart(a) /\ a \notin DigitRuns
\* The length of the longest match of [a-zA-Z0-9_]* at the start of s.
RECURSIVE IdentRun(_)
IdentRun(s) ==
    IF s = <<>> \/ ~IdentPart(Head(s)) THEN 0 ELSE 1 + IdentRun(Tail(s))

\* The replacement function of stripUnderscoreSuffixes left out: every match
\* is kept whole.
keepUnderscoreSuffixes(s) == s

\* stripUnderscoreSuffixes: every leftmost longest match m of identRe is
\* replaced by m[:i] when the first underscore of m is at i > 0.
RECURSIVE stripUnderscoreSuffixes(_)
stripUnderscoreSuffixes(s) ==
    IF s = <<>> THEN <<>>
    ELSE IF IdentStart(Head(s))
         THEN LET n == IdentRun(s)
                  m == SubSeq(s, 1, n)
                  i == Index(m, <<"_">>)
              IN (IF i > 0 THEN SubSeq(m, 1, i) ELSE m)
                 \o stripUnderscoreSuffixes(SubSeq(s, n + 1, Len(s)))
         ELSE <<Head(s)>> \o stripUnderscoreSuffixes(Tail(s))

\* renderCode: the line after the emphasis markers that start it.
RECURSIVE StripMarkers(_)
StripMarkers(line) ==
    IF HasPrefix(line, emOpenMarker)
    THEN StripMarkers(SubSeq(line, Len(emOpenMarker) + 1, Len(line)))
    ELSE IF HasPrefix(line, emCloseMarker)
         THEN StripMarkers(SubSeq(line, Len(emCloseMarker) + 1, Len(line)))
         ELSE line
\* renderCode: the emphasis markers that start the line.
MarkerPrefix(line) == SubSeq(line, 1, Len(line) - Len(StripMarkers(line)))
\* indent := len(content) - len(strings.TrimLeft(content, " "))
Indent(content) == Len(content) - Len(TrimLeft(content, {SP}))
\* The minimum indentation across the lines that are not blank, -1 if none.
MinIndent(lines) ==
    LET solid == {i \in 1..Len(lines) : TrimSpace(StripMarkers(lines[i])) # <<>>}
        indents == {Indent(StripMarkers(lines[i])) : i \in solid}
    IN IF solid = {} THEN -1
       ELSE CHOOSE n \in indents : \A m \in indents : n <= m
\* Remove common indentation.
Dedent(line, minIndent) ==
    LET content == StripMarkers(line)
    IN IF minIndent > 0 /\ Len(content) >= minIndent
       THEN MarkerPrefix(line) \o SubSeq(content, minIndent + 1, Len(content))
       ELSE line

\* strings.Fields(name)[0], <<>> when there is no field.
FirstField(name) ==
    LET t == TrimLeft(name, WhiteSpace)
        i == IndexAny(t, WhiteSpace)
    IN IF i < 0 THEN t ELSE SubSeq(t, 1, i)

Defn(name) == <<"<defn>">> \o EscapeString(name) \o <<"</defn>">>

renderCodeLine(line0) ==
    LET prefix == IF HasPrefix(line0, emOpenMarker) THEN emOpenMarker
                  ELSE IF HasPrefix(line0, emCloseMarker) THEN emCloseMarker
                  ELSE <<>>
        line == SubSeq(line0, Len(prefix) + 1, Len(line0))
        body == TrimLeft(line, Blank)
        lead == SubSeq(line, 1, Len(line) - Len(body))
        tail == SubSeq(body, 3, Len(body))
        isType == HasPrefix(body, <<"type", SP>>) /\ FirstField(tail) # <<>>
        isFunc == HasPrefix(body, <<"func", SP>>)
        recvEnd == Index(tail, <<")", SP>>)
        afterReceiver == SubSeq(tail, recvEnd + 3, Len(tail))
        methodParen == Index(afterReceiver, <<"(">>)
        funcParen == Index(tail, <<"(">>)
    IN IF isType
       THEN prefix \o EscapeString(lead) \o <<"type", SP>>
            \o Defn(FirstField(tail))
            \o EscapeString(TrimPrefix(tail, FirstField(tail)))
       ELSE IF isFunc /\ HasPrefix(tail, <<"(">>) /\ recvEnd >= 0 /\ methodParen >= 0
       THEN prefix \o EscapeString(lead) \o <<"func", SP>>
            \o EscapeString(SubSeq(tail, 1, recvEnd + 1) \o <<SP>>)
            \o Defn(SubSeq(afterReceiver, 1, methodParen))
            \o EscapeString(SubSeq(afterReceiver, methodParen + 1, Len(afterReceiver)))
       ELSE IF isFunc /\ ~HasPrefix(tail, <<"(">>) /\ funcParen >= 0
       THEN prefix \o EscapeString(lead) \o <<"func", SP>>
            \o Defn(SubSeq(tail, 1, funcParen))
            \o EscapeString(SubSeq(tail, funcParen + 1, Len(tail)))
       ELSE prefix \o EscapeString(line)

\* The values of the -em flag of the model: the default and a color name.
EmStyles == {"bold", "red"}
emOpen(style) ==
    IF style = "bold" THEN <<"<b>">> ELSE <<"<span style=\"color: ", style, "\">">>
emClose(style) == IF style = "bold" THEN <<"</b>">> ELSE <<"</span>">>

\* One line of renderCode: the code part and the comment part.
renderLine(line0) ==
    LET line == stripUnderscoreSuffixes(line0)
        idx == Index(line, <<"/", "/">>)
    IN IF idx < 0 THEN renderCodeLine(line)
       ELSE renderCodeLine(SubSeq(line, 1, idx))
            \o <<"<comment>">>
            \o EscapeString(SubSeq(line, idx + 1, Len(line)))
            \o <<"</comment>">>

\* The rendered lines, a newline between two of them.
RECURSIVE RenderLines(_, _)
RenderLines(lines, minIndent) ==
    IF lines = <<>> THEN <<>>
    ELSE renderLine(Dedent(Head(lines), minIndent))
         \o (IF Len(lines) > 1 THEN <<NL>> ELSE <<>>)
         \o RenderLines(Tail(lines), minIndent)

\* renderCode, style the value of emStyle.
renderCode(s, style) ==
    LET lines == Split(ReplaceAll(s, <<TAB>>, <<SP, SP, SP, SP>>), <<NL>>)
        rendered == RenderLines(lines, MinIndent(lines))
    IN ReplaceAll(ReplaceAll(rendered, emOpenMarker, emOpen(style)),
                  emCloseMarker, emClose(style))

\* renderMarkdown for plain paragraphs: every maximal run of lines that are
\* not blank is one <p> element, its lines kept apart by newlines.
Paragraph(text) == IF text = <<>> THEN <<>> ELSE <<"<p>">> \o text \o <<"</p>", NL>>
RECURSIVE Paragraphs(_, _)
Paragraphs(lines, text) ==
    IF lines = <<>> THEN Paragraph(text)
    ELSE IF TrimSpace(Head(lines)) = <<>>
         THEN Paragraph(text) \o Paragraphs(Tail(lines), <<>>)
         ELSE Paragraphs(Tail(lines),
                         IF text = <<>> THEN TrimSpace(Head(lines))
                         ELSE text \o <<NL>> \o TrimSpace(Head(lines)))
renderMarkdown(s) == Paragraphs(Split(s, <<NL>>), <<>>)

\* ----------------------------------------------------------- indentWriter
\* An indentWriter and the file it writes to: buf is what the file has
\* received, level the indentation level, err the field err (<<>> for nil,
\* <<k>> for the error the k-th Write of the file returned), calls the number
\* of Write calls the file has had, fails the calls of the file's Write that
\* return an error, and short whether such a call writes the first symbol of
\* its data before it fails or nothing.  run gives the writer a file whose
\* writes succeed unless said otherwise.
NewWriter ==
    [buf |-> <<>>, level |-> 0, err |-> <<>>, calls |-> 0, fails |-> {}, short |-> FALSE]

\* Mutant of Write: the data is passed to the file whatever err holds.
WriteThrough(w, data) ==
    IF (w.calls + 1) \in w.fails
    THEN [w EXCEPT !.calls = @ + 1, !.err = <<w.calls + 1>>,
                   !.buf = IF w.short /\ data # <<>> THEN @ \o <<Head(data)>> ELSE @]
    ELSE [w EXCEPT !.calls = @ + 1, !.buf = @ \o data]

\* indentWriter.Write: the writer after the call.
Write(w, data) ==
    IF w.err # <<>> THEN w
    ELSE IF (w.calls + 1) \in w.fails
         THEN [w EXCEPT !.calls = @ + 1, !.err = <<w.calls + 1>>,
                        !.buf = IF w.short /\ data # <<>> THEN @ \o <<Head(data)>> ELSE @]
         ELSE [w EXCEPT !.calls = @ + 1, !.buf = @ \o data]
\* indentWriter.Write: the values n, err it returns.
WriteReturn(w, data) ==
    IF w.err # <<>> THEN <<0, w.err>>
    ELSE IF (w.calls + 1) \in w.fails
         THEN <<IF w.short /\ data # <<>> THEN 1 ELSE 0, <<w.calls + 1>>>>
         ELSE <<Len(data), <<>>>>
\* indentWriter.Err
Err(w) == w.err

RECURSIVE Spaces(_)
Spaces(n) == IF n <= 0 THEN <<>> ELSE <<SP, SP>> \o Spaces(n - 1)
\* for range w.level { io.WriteString(w, "  ") }
RECURSIVE WriteIndent(_, _)
WriteIndent(w, n) == IF n <= 0 THEN w ELSE WriteIndent(Write(w, <<SP, SP>>), n - 1)
indent(w) == WriteIndent(w, w.level)
open(w, s) == [Write(Write(indent(w), s), <<NL>>) EXCEPT !.level = @ + 1]
close(w, s) ==
    LET lower == [w EXCEPT !.level = @ - 1]
    IN Write(Write(indent(lower), s), <<NL>>)
linef(w, s) == Write(Write(indent(w), s), <<NL>>)

\* The body of the loop of writeSlideHTML for one section; notes and style are
\* the values of includeNotes and emStyle.
writeSection(w, sec, notes, style) ==
    CASE sec.kind = sectionCode ->
            close(Write(Write(open(w, <<"<div class='code'><pre>">>),
                              renderCode(sec.content, style)),
                        <<"</pre>", NL>>),
                  <<"</div>">>)
      [] sec.kind = sectionCodeBad ->
            close(Write(Write(open(w, <<"<div class='code bad'><pre>">>),
                              renderCode(sec.content, style)),
                        <<"</pre>", NL>>),
                  <<"</div>">>)
      [] sec.kind = sectionText ->
            close(Write(open(w, <<"<div class='text'>">>),
                        renderMarkdown(sec.content)),
                  <<"</div>">>)
      [] sec.kind = sectionQuestion ->
            Write(Write(w, renderMarkdown(sec.content)),
                  <<SP, SP, "<details>", "<summary></summary>", NL>>)
      [] sec.kind = sectionAnswer ->
            Write(Write(w, renderMarkdown(sec.content)),
                  <<SP, SP, "</details>", NL>>)
      [] sec.kind = sectionOutput ->
            close(Write(Write(open(Write(w, <<"<div></div>", NL>>),
                                   <<"<div class='output'><pre>">>),
                              sec.content),
                        <<"</pre>", NL>>),
                  <<"</div>">>)
      [] sec.kind = sectionNote ->
            IF notes THEN Write(w, renderMarkdown(sec.content)) ELSE w
      [] sec.kind = sectionHTML -> linef(w, sec.content)
      [] OTHER -> w

RECURSIVE writeSections(_, _, _, _)
writeSections(w, secs, notes, style) ==
    IF secs = <<>> THEN w
    ELSE writeSections(writeSection(w, Head(secs), notes, style), Tail(secs),
                       notes, style)

writeSlideHTML(w, s, pageNum, notes, style) ==
    LET article == open(w, IF s.problem THEN <<"<article class='problem'>">>
                           ELSE <<"<article>">>)
        heading == linef(article, <<"<h1>">> \o EscapeString(s.heading) \o <<"</h1>">>)
        body == writeSections(heading, s.sections, notes, style)
        number == linef(body, <<"<span class='pagenumber'>", ToString(pageNum),
                                "</span>">>)
    IN close(number, <<"</article>">>)

RECURSIVE writeSlides(_, _, _, _, _)
writeSlides(w, ss, pageNum, notes, style) ==
    IF ss = <<>> THEN w
    ELSE writeSlides(writeSlideHTML(w, Head(ss), pageNum, notes, style), Tail(ss),
                     pageNum + 1, notes, style)

\* The number of the page written first for the file: run starts at 2.
FirstPage == 2

\* processFile after a scan that returned the slides ss.
processFile(w, name, ss, pageNum, notes, style) ==
    writeSlides(linef(w, <<NL, "<!-- ">> \o name \o <<" -->">>), ss, pageNum,
                notes, style)

\* run, for the one file of the model: processFile returns the error of
\* scanFile before it writes anything, and writes the slides otherwise.
run ==
    /\ pc = "returned"
    /\ IF err # NoError
       THEN /\ pc' = "failed"
            /\ out' = out
       ELSE /\ pc' = "written"
            /\ \E notes \in BOOLEAN, style \in EmStyles :
                   out' = processFile(NewWriter, filename, result, FirstPage, notes,
                                       style).buf
    /\ UNCHANGED <<slides, slide, current, kind, divClass, lineNum, err, result,
                   block, openedAt, others>>

Next ==
    \/ \E line \in Lines : ScanLine(line)
    \/ ScannerErr
    \/ EndOfInput
    \/ run

Spec == Init /\ [][Next]_vars

\* ---------------------------------------------------------- properties
\* scanFile returned a slide list and no error.
Succeeded == pc = "returned" /\ err = NoError
\* scanFile returned an error.
Failed == pc = "returned" /\ err # NoError

Section(k, c) == [kind |-> k, content |-> c]

RECURSIVE Flatten(_)
Flatten(ss) == IF ss = <<>> THEN <<>> ELSE Head(ss).sections \o Flatten(Tail(ss))

\* sub occurs in s.
Contains(s, sub) == Index(s, sub) >= 0

\* ------------------------------------------------- rendering of code lines
\* The code sections whose rendering is checked: one line made of an
\* indentation, the start of a declaration, a name, what follows the name and
\* a comment.
CodeIndents == {<<>>, <<SP, SP>>}
CodeHeads ==
    {<<>>, <<"type", SP>>, <<"func", SP>>,
     <<"func", SP, "(", "r", SP, "*", "T", ")", SP>>}
CodeNames ==
    {<<"foo">>, <<"foo", "_", "3", "x">>, <<"_", "private">>, <<"doThing", "_", "2">>}
CodeTails ==
    {<<>>, <<"(", ")">>, <<"(", "bar", "_", "v", "2", ")">>, <<SP, "struct">>,
     <<"[", "T", SP, "any", "]", "(", ")">>, <<"[", "T", SP, "any", "]", SP, "struct">>}
CodeComments == {<<>>, <<SP, "/", "/", SP, "see", SP, "foo", "_", "1">>}
CodeLineOf(i, h, n, t, c) == i \o h \o n \o t \o c
CodeInputs ==
    {CodeLineOf(i, h, n, t, c) :
        i \in CodeIndents, h \in CodeHeads, n \in CodeNames, t \in CodeTails,
        c \in CodeComments}

\* scanFile has returned one slide whose one section is a code block of one
\* line: the file held "// code", the line and "// !code".
RenderInit ==
    /\ NotifyIdle /\ SendIdle /\ IDIdle /\ LaterIdle
    /\ slides = <<>>
    /\ slide = NewSlide(<<>>)
    /\ current = <<>>
    /\ kind = sectionUndefined
    /\ divClass = <<>>
    /\ lineNum = 3
    /\ pc = "returned"
    /\ err = NoError
    /\ result \in {<<[NewSlide(Base(filename)) EXCEPT
                         !.sections = <<Section(sectionCode, code)>>]>> :
                    code \in CodeInputs}
    /\ out = <<>>
    /\ block = <<>>
    /\ openedAt = 0

RenderSpec == RenderInit /\ [][run]_vars

\* ------------------------------------- rendering of special characters
\* The code sections whose escaping is checked: one line that the scanner
\* stores for a code block, made of the marker of a "// em" line before it or
\* none, an indentation, the start of a declaration, a name (inside the
\* markers of an inline "// em foo" or not), what follows the name, a comment,
\* and the marker of a "// !em" line after it or none.  The texts hold the
\* five characters html.EscapeString replaces, and the text of a tag.
EscStarts == {<<>>, <<SP, SP>>, emOpenMarker \o <<SP, SP>>}
EscNames == {<<"foo">>, emOpenMarker \o <<"foo">> \o emCloseMarker}
EscTails ==
    {<<"(", "a", SP, "<", "-", "chan", SP, "T", ")">>,
     <<"(", ")", SP, "{", SP, "a", SP, "&", "&", SP, "b", SP, ">", SP, "'", "c", "'", SP, "}">>,
     <<SP, "=", SP, "\"", "<", "b", ">", "x", "<", "/", "b", ">", "\"">>}
EscComments ==
    {<<>>, <<SP, "/", "/", SP, "<", "defn", ">", SP, "&", SP, "\"", "q", "\"">>}
EscEnds == {<<>>, emCloseMarker}
EscapeInputs ==
    {s \o h \o n \o t \o c \o e :
        s \in EscStarts, h \in CodeHeads, n \in EscNames, t \in EscTails,
        c \in EscComments, e \in EscEnds}

\* scanFile has returned one slide whose one section is a code block of one
\* of these lines.
EscapeInit ==
    /\ NotifyIdle /\ SendIdle /\ IDIdle /\ LaterIdle
    /\ slides = <<>>
    /\ slide = NewSlide(<<>>)
    /\ current = <<>>
    /\ kind = sectionUndefined
    /\ divClass = <<>>
    /\ lineNum = 3
    /\ pc = "returned"
    /\ err = NoError
    /\ result \in {<<[NewSlide(Base(filename)) EXCEPT
                         !.sections = <<Section(sectionCode, code)>>]>> :
                    code \in EscapeInputs}
    /\ out = <<>>
    /\ block = <<>>
    /\ openedAt = 0

EscapeSpec == EscapeInit /\ [][run]_vars

\* C1: in every slide of a successful scan each Answer section is directly
\* preceded, in that slide, by a Question section.
C1_AnswerFollowsQuestion ==
    Succeeded =>
        \A i \in 1..Len(result) :
            \A j \in 1..Len(result[i].sections) :
                result[i].sections[j].kind = sectionAnswer =>
                    /\ j > 1
                    /\ result[i].sections[j - 1].kind = sectionQuestion

\* The kind each section-opening line of the model attempts to open.
OpenerKind ==
    (L_note :> sectionNote) @@ (L_code :> sectionCode) @@
    (L_codebad :> sectionCodeBad) @@ (L_text :> sectionText) @@
    (L_textinline :> sectionText) @@ (L_output :> sectionOutput) @@
    (L_question :> sectionQuestion)

\* C2: a section-opening line read while a section of kind K is open makes
\* the scan fail with the error "O inside K", O the kind it attempts to open.
C2_OpenInsideOpenFails ==
    [][\A line \in DOMAIN OpenerKind :
          (kind # sectionUndefined /\ ScanLine(line)) =>
              /\ pc' = "returned"
              /\ result' = <<>>
              /\ err' = WrapError(lineNum + 1,
                                  String(OpenerKind[line]) \o <<" inside ">>
                                  \o String(kind))]_vars

\* A question opener inside an open answer has been rejected.
C2_Witness ==
    /\ Failed
    /\ err.msg = <<"question", " inside ", "answer">>

\* C3: html, heading and div directives read while a section is open make
\* the scan fail.
C3_ImmediateInsideOpenFails ==
    [][\A line \in {L_html, L_heading, L_div_a, L_div_b} :
          (kind # sectionUndefined /\ ScanLine(line)) =>
              (pc' = "returned" /\ err' # NoError)]_vars

\* The closing keyword of each closing line of the model.
CloserWord ==
    (L_endnote :> <<"!", "note">>) @@ (L_endcode :> <<"!", "code">>) @@
    (L_endtext :> <<"!", "text">>) @@ (L_endoutput :> <<"!", "output">>) @@
    (L_endquestion :> <<"!", "question">>)
\* The kinds a closing line closes.
CloserKinds ==
    (L_endnote :> {sectionNote}) @@ (L_endcode :> {sectionCode, sectionCodeBad}) @@
    (L_endtext :> {sectionText}) @@ (L_endoutput :> {sectionOutput}) @@
    (L_endquestion :> {sectionQuestion, sectionAnswer})

\* C4: a closing line read while its section is not the open one makes the
\* scan fail with an error that names the closing keyword.
C4_UnmatchedCloserNamed ==
    [][\A line \in DOMAIN CloserWord :
          (kind \notin CloserKinds[line] /\ ScanLine(line)) =>
              /\ pc' = "returned"
              /\ err' # NoError
              /\ Contains(err'.msg, CloserWord[line])]_vars

\* Blank lines and bare comment openers.
SeparatorLines == {L_blank, L_bare}
\* The kinds whose content is paragraph text.
ParagraphKinds == {sectionNote, sectionText, sectionQuestion}

ParagraphText ==
    (L_plain :> <<"x">>) @@ (L_comment :> <<"para">>) @@
    (L_blank :> <<>>) @@ (L_bare :> <<>>)
RECURSIVE Joined(_)
Joined(b) ==
    IF b = <<>> THEN <<>> ELSE ParagraphText[Head(b)] \o <<NL>> \o Joined(Tail(b))
\* Every line of b is a paragraph line or a separator.
NoteBody(b) == \A i \in 1..Len(b) : b[i] \in DOMAIN ParagraphText

C7_CodeBlockNeverFails ==
    [][\A line \in Lines \ DOMAIN OpenerKind :
          (kind = sectionCode /\ ScanLine(line)) => err' = NoError]_vars

\* Lines without a directive keyword and without an emphasis annotation.
VerbatimLines == PlainLines \cup {L_blockend}
RECURSIVE Lined(_)
Lined(b) == IF b = <<>> THEN <<>> ELSE Head(b) \o <<NL>> \o Lined(Tail(b))
DropLast(s) == IF s = <<>> THEN <<>> ELSE SubSeq(s, 1, Len(s) - 1)
Verbatim(b) == \A i \in 1..Len(b) : b[i] \in VerbatimLines

\* C7, amended: inside a code ... !code pair whose enclosed lines carry no
\* directive keyword and no emphasis annotation, no enclosed line and not the
\* !code makes the scan fail, and the pair yields exactly one Code section,
\* whose content is the enclosed lines in order, each terminated by a newline,
\* with the last newline removed.
C7_CodeBlockVerbatim ==
    [][/\ \A line \in VerbatimLines :
             (kind = sectionCode /\ ScanLine(line)) =>
                 (err' = NoError /\ kind' = sectionCode /\ slide' = slide)
       /\ (kind = sectionCode /\ Verbatim(block) /\ ScanLine(L_endcode)) =>
              /\ err' = NoError
              /\ kind' = sectionUndefined
              /\ TotalSections = openedAt
              /\ slides' = slides
              /\ slide'.sections =
                     Append(slide.sections,
                            Section(sectionCode, DropLast(Lined(block))))]_vars

\* A code block of a code line, a comment and a blank line has been closed.
C7_Witness ==
    /\ pc = "scan"
    /\ kind = sectionUndefined
    /\ slide.sections =
           <<Section(sectionCode, <<"x", NL, "/", "/", SP, "para", NL>>)>>

\* The content ends with an empty line: its last line is terminated and
\* nothing stands between that terminator and the one before it.
EndsWithBlankLine(c) == c = <<NL>> \/ HasSuffix(c, <<NL, NL>>)

\* C8: in the slides of a successful scan no Code or CodeBad content ends
\* with a blank line.
C8_NoTrailingBlankLine ==
    Succeeded =>
        \A i \in 1..Len(Flatten(result)) :
            Flatten(result)[i].kind \in {sectionCode, sectionCodeBad} =>
                ~EndsWithBlankLine(Flatten(result)[i].content)

\* The class each div-closing line of the model names.
EndDivClass == (L_enddiv_a :> <<"a">>) @@ (L_enddiv_b :> <<"b">>)

\* C9: a !div.B read while the active class A differs from B (also when no
\* div is active) makes the scan fail with an error naming A and B.
C9_DivMismatchFails ==
    [][\A line \in DOMAIN EndDivClass :
          (EndDivClass[line] # divClass /\ ScanLine(line)) =>
              /\ pc' = "returned"
              /\ result' = <<>>
              /\ err'.lineNum = lineNum + 1
              /\ err'.msg = <<"mismatched div class: start ">> \o Quote(divClass)
                            \o <<", end ">> \o Quote(EndDivClass[line])]_vars

\* A div opened with one class has been closed with the other.
C9_Witness ==
    /\ Failed
    /\ Contains(err.msg, Quote(<<"b">>) \o <<", end ">> \o Quote(<<"a">>))

DivClasses == {<<"a">>, <<"b">>}
DivOpen(c) == Section(sectionHTML, <<"<div class=">> \o Quote(c) \o <<">">>)
DivClose(c) == Section(sectionHTML, <<"</div> <!-- ">> \o c \o <<" -->">>)
\* The number of sections equal to sec among the first n of secs.
Occurrences(secs, sec, n) == Cardinality({i \in 1..n : secs[i] = sec})
\* Every div-close closes an earlier div-open of its class that is not yet
\* closed, and every div-open is closed.
DivPaired(secs) ==
    \A c \in DivClasses :
        /\ \A n \in 0..Len(secs) :
               Occurrences(secs, DivClose(c), n) <= Occurrences(secs, DivOpen(c), n)
        /\ Occurrences(secs, DivClose(c), Len(secs))
               = Occurrences(secs, DivOpen(c), Len(secs))

\* C10: in the slides of a successful scan the div-open and div-close
\* sections are properly paired.
C10_DivsPaired == Succeeded => DivPaired(Flatten(result))

\* C11: at the end of the input an open section makes the scan fail with
\* "unclosed K section", K the open kind (answer after an answer line); with no
\* section open an active div class C makes it fail with "unclosed div with
\* class C"; with neither the scan succeeds and returns the slides.
C11_UnclosedAtEnd ==
    [][EndOfInput =>
          IF kind # sectionUndefined
          THEN /\ result' = <<>>
               /\ err' = WrapError(lineNum,
                                   <<"unclosed ">> \o String(kind) \o <<" section">>)
          ELSE IF divClass # <<>>
               THEN /\ result' = <<>>
                    /\ err' = WrapError(lineNum,
                                        <<"unclosed div with class ">>
                                        \o Quote(divClass))
               ELSE /\ err' = NoError
                    /\ result' = Append(slides, slide)]_vars

\* The input ended with a div class active and no section open.
C11_Witness ==
    /\ Failed
    /\ err.msg = <<"unclosed div with class ">> \o Quote(<<"a">>)

\* The heading text of each heading line of the model.
HeadingText == (L_heading :> <<"H">>) @@ (L_headingG :> <<"G">>)

\* C12: a heading line read when the slide in progress has a section appends
\* that slide to the finalized slides and starts a slide with the new heading
\* and no section; read when the slide in progress has no section it only
\* replaces the heading of that slide.
C12_HeadingStartsSlide ==
    [][\A line \in DOMAIN HeadingText :
          ScanLine(line) =>
              /\ err' = NoError
              /\ IF Len(slide.sections) > 0
                 THEN /\ slides' = Append(slides, slide)
                      /\ slide'.heading = HeadingText[line]
                      /\ slide'.sections = <<>>
                 ELSE /\ slides' = slides
                      /\ slide' = [slide EXCEPT !.heading = HeadingText[line]]]_vars

\* Two headings, each followed by a section, gave two slides in the order of
\* the headings.
C12_Witness ==
    /\ Succeeded
    /\ Len(result) = 2
    /\ result[1].heading = <<"H">>
    /\ result[2].heading = <<"G">>
    /\ Len(result[1].sections) = 1
    /\ Len(result[2].sections) = 1

\* The number of the line on which a failing step detects its condition: the
\* last line read for a failure at the end of the input, the line being read
\* otherwise.
DetectedAt == IF EndOfInput THEN lineNum ELSE lineNum + 1

\* C13: a failing step returns no slide list and an error that carries the
\* file name and the 1-based number of the line on which the condition was
\* detected; after scanFile returned no line is read and what it returned
\* stands.
C13_ErrorsCarryLine ==
    [][/\ pc # "scan" => UNCHANGED <<lineNum, err, result>>
       /\ (pc = "scan" /\ err' # NoError) =>
              /\ pc' = "returned"
              /\ result' = <<>>
              /\ err'.filename = filename
              /\ err'.lineNum >= 1
              /\ err'.lineNum = DetectedAt]_vars

\* The sections of a slide after the buffer has been flushed as a section of
\* kind k: a buffer that holds text becomes one more section, an empty buffer
\* leaves nothing to record.
Flushed(secs, k, buf) == IF buf = <<>> THEN secs ELSE Append(secs, Section(k, buf))

\* C14: an answer line read while no Question section is open (idle and the
\* Answer state included) makes the scan fail with "answer without matching
\* question"; read while a Question section is open it flushes the buffer as
\* a completed Question section, clears the buffer and leaves the scanner in
\* the Answer state.
C14_AnswerCompletesQuestion ==
    [][ScanLine(L_answer) =>
          IF kind # sectionQuestion
          THEN /\ pc' = "returned"
               /\ result' = <<>>
               /\ err' = WrapError(lineNum + 1,
                                   <<"answer", " without matching ", "question">>)
          ELSE /\ err' = NoError
               /\ pc' = "scan"
               /\ kind' = sectionAnswer
               /\ current' = <<>>
               /\ slides' = slides
               /\ slide'.sections =
                      Flushed(slide.sections, sectionQuestion, current)]_vars

\* The text of a question has been recorded by an answer line, and the
\* scanner is in the Answer state.
C14_Witness ==
    /\ pc = "scan"
    /\ kind = sectionAnswer
    /\ current = <<>>
    /\ slide.sections = <<Section(sectionQuestion, <<"para", NL>>)>>

\* C15: a !question line read in the Question state makes the scan fail with
\* a "without answer" error; read in the Answer state it flushes the buffer
\* as a completed Answer section, clears the buffer and returns the scanner
\* to idle.
C15_EndQuestionCompletesAnswer ==
    [][ScanLine(L_endquestion) =>
          /\ kind = sectionQuestion =>
                 /\ pc' = "returned"
                 /\ result' = <<>>
                 /\ err'.lineNum = lineNum + 1
                 /\ Contains(err'.msg, <<" without ", "answer">>)
          /\ kind = sectionAnswer =>
                 /\ err' = NoError
                 /\ pc' = "scan"
                 /\ kind' = sectionUndefined
                 /\ current' = <<>>
                 /\ slides' = slides
                 /\ slide'.sections =
                        Flushed(slide.sections, sectionAnswer, current)]_vars

\* A question block with a question text and an answer text has been closed.
C15_Witness ==
    /\ pc = "scan"
    /\ kind = sectionUndefined
    /\ slide.sections = <<Section(sectionQuestion, <<"para", NL>>),
                          Section(sectionAnswer, <<"x", NL>>)>>

\* Lines that are no directive: code, blank lines, ordinary comments, a
\* block-comment closer and, outside a code block, emphasis annotations.
UnrecognizedLines == PlainLines \cup EmLines \cup {L_blockend}

\* C16: while no section is open, a line that is no directive leaves the
\* finalized slides, the slide in progress, the buffer, the open kind and
\* the active div class unchanged, and the scan goes on.
C16_IdleLineIgnored ==
    [][\A line \in UnrecognizedLines :
          (kind = sectionUndefined /\ ScanLine(line)) =>
              /\ err' = NoError
              /\ pc' = "scan"
              /\ UNCHANGED <<slides, slide, current, kind, divClass>>]_vars

\* A file of one line that is no directive has been scanned: the result is
\* the single slide the scan started with.
C16_Witness ==
    /\ Succeeded
    /\ lineNum = 1
    /\ result = <<NewSlide(Base(filename))>>

\* C17: a code bad line read while idle opens a section of kind CodeBad and
\* records nothing; the !code that closes it records one section of kind
\* CodeBad whose content is the buffer without its last newline, which for
\* enclosed lines without directive and annotation is the lines in order.
C17_CodeBadKind ==
    [][/\ (kind = sectionUndefined /\ ScanLine(L_codebad)) =>
              /\ err' = NoError
              /\ kind' = sectionCodeBad
              /\ slide' = slide
              /\ slides' = slides
       /\ (kind = sectionCodeBad /\ ScanLine(L_endcode)) =>
              /\ err' = NoError
              /\ kind' = sectionUndefined
              /\ slides' = slides
              /\ slide'.sections =
                     Append(slide.sections,
                            Section(sectionCodeBad, TrimSuffix(current, <<NL>>)))
              /\ Verbatim(block) =>
                     /\ TotalSections = openedAt
                     /\ TrimSuffix(current, <<NL>>) = DropLast(Lined(block))]_vars

\* A code bad block of one code line has been closed.
C17_Witness ==
    /\ pc = "scan"
    /\ kind = sectionUndefined
    /\ slide.sections = <<Section(sectionCodeBad, <<"x">>)>>

\* The line x // em x as it is stored: the code part, its one match of the
\* pattern between the two markers, the annotation removed.
StoredInlineEm == <<NUL, "em", NUL, "x", NUL, "/", "em", NUL>>
\* The text of an inline emphasis annotation.
EmAnnotation == <<"/", "/", SP, "em">>
\* The match x emphasized in the style of the -em flag.
Emphasized(style) == emOpen(style) \o <<"x">> \o emClose(style)
\* A Code or CodeBad section of the result holds the stored line.
HasStoredInlineEm ==
    \E i \in 1..Len(Flatten(result)) :
        /\ Flatten(result)[i].kind \in {sectionCode, sectionCodeBad}
        /\ Contains(Flatten(result)[i].content, StoredInlineEm)

C19_BadPatternFails ==
    [][/\ (InCode /\ ScanLine(L_badem)) =>
              /\ pc' = "returned"
              /\ result' = <<>>
              /\ err'.filename = filename
              /\ err'.lineNum = lineNum + 1
              /\ Contains(err'.msg, Quote(<<"(">>))
       /\ (Failed /\ run) => (pc' = "failed" /\ out' = <<>>)]_vars

\* The pattern ( has been rejected and the file has produced no output.
C19_Witness ==
    /\ pc = "failed"
    /\ out = <<>>
    /\ HasPrefix(err.msg, <<"invalid em regexp ">> \o Quote(<<"(">>))

\* Every <details> of s is closed by a later </details> before its page ends,
\* and no </details> stands without an open <details>; depth is the number of
\* open ones.
RECURSIVE DetailsBalanced(_, _)
DetailsBalanced(s, depth) ==
    IF s = <<>> THEN depth = 0
    ELSE CASE Head(s) = "<details>" -> DetailsBalanced(Tail(s), depth + 1)
           [] Head(s) = "</details>" ->
                  depth > 0 /\ DetailsBalanced(Tail(s), depth - 1)
           [] Head(s) = "</article>" -> depth = 0 /\ DetailsBalanced(Tail(s), 0)
           [] OTHER -> DetailsBalanced(Tail(s), depth)

\* C20: in what is written for a successfully scanned file the disclosures of
\* every page are balanced.
C20_DisclosuresBalanced == pc = "written" => DetailsBalanced(out, 0)


\* The part of s between the first a and the first b after it.
Between(s, a, b) ==
    LET after == SubSeq(s, Index(s, a) + Len(a) + 1, Len(s))
    IN SubSeq(after, 1, Index(after, b))
\* What renderCode returned for the code section of a written page.
CodeWritten == Between(out, <<"<div class='code'><pre>", NL>>, <<"</pre>", NL>>)
\* The code section of a scan result that is one line of code.
CodeScanned == result[1].sections[1].content
OneCodeLine ==
    /\ Len(result) = 1
    /\ Len(result[1].sections) = 1
    /\ result[1].sections[1].kind = sectionCode
    /\ ~Contains(CodeScanned, <<NL>>)
    /\ ~Contains(CodeScanned, <<NUL>>)
\* The elements renderCode puts around parts of a line.
CodeTags == {"<defn>", "</defn>", "<comment>", "</comment>"}
Untagged(s) == SelectSeq(s, LAMBDA a : a \notin CodeTags)
\* An identifier as the slide shows it: without its first underscore and what
\* follows it, unless it starts with an underscore.
ShownIdentifier(id) ==
    IF Head(id) = "_" \/ Index(id, <<"_">>) < 0 THEN id
    ELSE SubSeq(id, 1, Index(id, <<"_">>))
\* A line with each of its identifiers as the slide shows it; a word that
\* starts with a digit is not an identifier.
RECURSIVE Shown(_)
Shown(s) ==
    IF s = <<>> THEN <<>>
    ELSE IF IdentPart(Head(s))
         THEN LET n == IdentRun(s)
                  word == SubSeq(s, 1, n)
              IN (IF Head(word) \in DigitRuns THEN word ELSE ShownIdentifier(word))
                 \o Shown(SubSeq(s, n + 1, Len(s)))
         ELSE <<Head(s)>> \o Shown(Tail(s))

\* C21: the text renderCode shows for a line of code is the line with every
\* identifier that does not start with an underscore cut before its first
\* underscore, and every identifier that starts with an underscore whole.
C21_UnderscoreSuffixesRemoved ==
    (pc = "written" /\ OneCodeLine) =>
        Untagged(CodeWritten) = EscapeString(Shown(TrimLeft(CodeScanned, {SP})))
\* foo_3x(bar_v2) is shown as foo(bar), func doThing_2() as func doThing(),
\* _private whole.
C21_Witness ==
    /\ pc = "written"
    /\ \/ /\ CodeScanned = <<"foo", "_", "3", "x", "(", "bar", "_", "v", "2", ")">>
          /\ CodeWritten = <<"foo", "(", "bar", ")">>
       \/ /\ CodeScanned = <<"func", SP, "doThing", "_", "2", "(", ")">>
          /\ Untagged(CodeWritten) = <<"func", SP, "doThing", "(", ")">>
       \/ /\ CodeScanned = <<"_", "private", "(", ")">>
          /\ CodeWritten = CodeScanned


\* The declarations of the inputs: type NAME followed by a type, with or
\* without type parameters, and func NAME(...) with or without a receiver.
IsTypeDecl(h, t) ==
    /\ h = <<"type", SP>>
    /\ t \in {<<SP, "struct">>, <<"[", "T", SP, "any", "]", SP, "struct">>}
IsFuncDecl(h, t) ==
    /\ h \in {<<"func", SP>>, <<"func", SP, "(", "r", SP, "*", "T", ")", SP>>}
    /\ t \in {<<"(", ")">>, <<"(", "bar", "_", "v", "2", ")">>}
\* A comment of the inputs in the comment style, after the space before it.
CommentShown(c) ==
    IF c = <<>> THEN <<>>
    ELSE <<SP, "<comment>">> \o EscapeString(Shown(Tail(c))) \o <<"</comment>">>
\* The declaration with the name, and nothing else, in the definition style.
DeclShown(h, n, t, c) ==
    EscapeString(h) \o <<"<defn>">> \o EscapeString(Shown(n)) \o <<"</defn>">>
    \o EscapeString(Shown(t)) \o CommentShown(c)

\* C22: a line type NAME ..., func NAME(...) or func (RECEIVER) NAME(...) is
\* written with exactly NAME in the definition style and the rest of the line
\* as it is, and what starts at the first // in the comment style.
C22_NameInDefinitionStyle ==
    (pc = "written" /\ OneCodeLine) =>
        \A i \in CodeIndents, h \in CodeHeads, n \in CodeNames, t \in CodeTails,
           c \in CodeComments :
            (CodeScanned = CodeLineOf(i, h, n, t, c)
                /\ (IsTypeDecl(h, t) \/ IsFuncDecl(h, t)))
            => CodeWritten = DeclShown(h, n, t, c)
\* The same for the declarations without type parameters.
C22_PlainDeclarations ==
    (pc = "written" /\ OneCodeLine) =>
        \A i \in CodeIndents, h \in CodeHeads, n \in CodeNames, t \in CodeTails,
           c \in CodeComments :
            (CodeScanned = CodeLineOf(i, h, n, t, c)
                /\ (IsTypeDecl(h, t) \/ IsFuncDecl(h, t))
                /\ ~Contains(t, <<"[">>))
            => CodeWritten = DeclShown(h, n, t, c)


\* C27: a successful scan returns at least one slide, every slide of the
\* result but the last holds a section, and the slide being built when the
\* input ends is the last slide of the result, with or without sections.
C27_ResultNeverEmpty ==
    /\ [][(pc = "scan" /\ pc' = "returned" /\ err' = NoError)
            => result' = Append(slides, slide)]_vars
    /\ [](Succeeded =>
            /\ Len(result) >= 1
            /\ \A i \in 1..(Len(result) - 1) : result[i].sections # <<>>)
\* A result of two slides whose last slide holds no section, and the result of
\* a file without any section.
C27_Witness ==
    /\ Succeeded
    /\ \/ Len(result) = 2 /\ result[2].sections = <<>> /\ result[1].sections # <<>>
       \/ Len(result) = 1 /\ result[1].sections = <<>> /\ lineNum > 0


\* What a line that is no directive does in the state it is read in: nothing
\* while idle; in a code block the line is appended as it is; in any other
\* open section it is appended without a leading // and surrounding space.
OrdinaryEffect(line) ==
    /\ err' = NoError
    /\ pc' = "scan"
    /\ UNCHANGED <<slides, slide, kind, divClass>>
    /\ current' = IF kind = sectionUndefined THEN current
                  ELSE IF kind \in {sectionCode, sectionCodeBad}
                       THEN current \o line \o <<NL>>
                       ELSE current \o TrimSpace(TrimPrefix(line, <<"/", "/">>))
                            \o <<NL>>

\* C28: a line that is only "*/", read while a Text section is open, does
\* what a "!text" line does in that state; read in any other state it does
\* what a line that is no directive does there, as the line "x" does.
C28_BlockCommentEndClosesText ==
    [][/\ ScanLine(L_blockend) =>
            IF kind = sectionText THEN EndText(L_endtext)
            ELSE OrdinaryEffect(L_blockend)
       /\ (ScanLine(L_plain) /\ kind # sectionText) => OrdinaryEffect(L_plain)]_vars
\* A Text section has been recorded, and a later section that is not a Text
\* section holds the line "*/" as part of its content.
C28_Witness ==
    /\ Succeeded
    /\ \E i \in 1..Len(Flatten(result)) :
          /\ Flatten(result)[i].kind # sectionText
          /\ Contains(Flatten(result)[i].content, L_blockend)


\* C29: the line "text T" read while a section is open makes the scan fail
\* with "text inside K"; read while idle it appends one Text section holding
\* T and a newline and leaves the scanner idle with an empty buffer.  In that
\* state a "!text" line fails as unmatched, and the end of the input is a
\* success unless a div is open.
C29_InlineTextIsComplete ==
    [][/\ ScanLine(L_textinline) =>
            IF kind # sectionUndefined
            THEN /\ pc' = "returned"
                 /\ result' = <<>>
                 /\ err' = WrapError(lineNum + 1, <<"text", " inside ">> \o String(kind))
            ELSE /\ err' = NoError
                 /\ pc' = "scan"
                 /\ kind' = sectionUndefined
                 /\ current' = <<>>
                 /\ UNCHANGED <<slides, divClass>>
                 /\ slide' = [slide EXCEPT !.sections =
                                 Append(@, Section(sectionText, <<"T", NL>>))]
       /\ (ScanLine(L_endtext) /\ kind = sectionUndefined) =>
            /\ pc' = "returned"
            /\ err' = WrapError(lineNum + 1, <<"!", "text", " without matching ", "text">>)
       /\ (EndOfInput /\ kind = sectionUndefined /\ divClass = <<>>) =>
            /\ err' = NoError
            /\ result' = Append(slides, slide)]_vars
\* The file of the one line "text T" has been scanned with success: its end
\* was not reported as an unclosed section.
C29_Witness ==
    /\ Succeeded
    /\ lineNum = 1
    /\ result = <<[NewSlide(Base(filename)) EXCEPT
                     !.sections = <<Section(sectionText, <<"T", NL>>)>>]>>


\* The lines of the model that are em and !em directives: the keyword after
\* the comment opener is em or !em and nothing follows it.
EmOpenLines == {l \in Lines : first(l) = <<"em">> /\ rest(l) = <<>>}
EmCloseLines == {l \in Lines : first(l) = <<"!", "em">> /\ rest(l) = <<>>}
\* What an em or !em directive does to the buffer of a code block: one open
\* marker at its end, or one close marker before the newline that ends it.
EmRecorded(lines, closers) ==
    \A line \in lines :
        (InCode /\ ScanLine(line)) =>
            /\ err' = NoError
            /\ pc' = "scan"
            /\ UNCHANGED <<slides, slide, kind, divClass>>
            /\ current' = IF line \in closers
                          THEN TrimSuffix(current, <<NL>>) \o emCloseMarker \o <<NL>>
                          ELSE current \o emOpenMarker
\* No Code or CodeBad section of the result holds the text of one of the lines.
NoneStored(lines) ==
    \A i \in 1..Len(Flatten(result)) : \A line \in lines :
        Flatten(result)[i].kind \in {sectionCode, sectionCodeBad}
            => ~Contains(Flatten(result)[i].content, TrimLeft(line, Blank))

\* C30: in an open Code or CodeBad block every em and !em directive line is
\* recorded as one marker at the end of the buffer, in the order the lines are
\* read, and no Code or CodeBad section of a result holds the text of such a
\* line.
C30_EmDirectivesAreMarkers ==
    /\ [][EmRecorded(EmOpenLines \cup EmCloseLines, EmCloseLines)]_vars
    /\ [](Succeeded => NoneStored(EmOpenLines \cup EmCloseLines))
\* The same for the lines that are, after their indentation, exactly "// em"
\* and "// !em".
C30_ExactEmLines ==
    /\ [][EmRecorded({L_em, L_endem}, {L_endem})]_vars
    /\ [](Succeeded => NoneStored({L_em, L_endem}))


\* ===================================================== notifications (nc_2)
\* The variables of cmd/code2slides while another program of the module runs.
ScanIdle ==
    /\ slides = <<>>
    /\ slide = NewSlide(<<>>)
    /\ current = <<>>
    /\ kind = sectionUndefined
    /\ divClass = <<>>
    /\ lineNum = 0
    /\ pc = ""
    /\ err = NoError
    /\ result = <<>>
    /\ out = <<>>
    /\ block = <<>>
    /\ openedAt = 0

\* The capacities of nc_2 that are checked (the source makes it with 10), the
\* goroutines that call the two functions, and the calls they make in all:
\* enough to fill the largest channel, overflow it by one and empty it.
MaxCap == 3
MaxCalls == 2 * MaxCap + 2
Goroutines == {"g1", "g2"}

NoCall == [op |-> "idle", s |-> ""]
\* The calls begun, and the calls of sendNotification_2 begun.
Pending(op) == Cardinality({g \in Goroutines : ncall[g].op = op})
Executed(op) == Len(SelectSeq(events, LAMBDA e : e.op = op))
CallsBegun == Len(events) + Pending("send") + Pending("recv")
SendsBegun == Executed("send") + Pending("send")

\* var nc_2 = make(chan string, capacity)
NotifyInit ==
    /\ ScanIdle /\ SendIdle /\ IDIdle /\ LaterIdle
    /\ capacity \in 1..MaxCap
    /\ nc_2 = <<>>
    /\ ncall = [g \in Goroutines |-> NoCall]
    /\ events = <<>>

\* A goroutine calls sendNotification_2(strconv.Itoa(i)), i the number of
\* the calls of it begun before.
CallSend(g) ==
    /\ ncall[g].op = "idle"
    /\ CallsBegun < MaxCalls
    /\ ncall' = [ncall EXCEPT ![g] = [op |-> "send", s |-> ToString(SendsBegun)]]
    /\ UNCHANGED <<capacity, nc_2, events, scanVars, sendVars, idVars, later>>

\* A goroutine calls receiveNotification_2().
CallReceive(g) ==
    /\ ncall[g].op = "idle"
    /\ CallsBegun < MaxCalls
    /\ ncall' = [ncall EXCEPT ![g] = [op |-> "recv", s |-> ""]]
    /\ UNCHANGED <<capacity, nc_2, events, scanVars, sendVars, idVars, later>>

\* What a select did: the operation, the string sent or returned, and the
\* number of strings the buffer held before it.
Event(op, str) == [op |-> op, s |-> str, len |-> Len(nc_2)]

\* Mutant of sendNotification_2: a full buffer drops its oldest string to
\* take the new one.
sendDropsOldest(g) ==
    /\ ncall[g].op = "send"
    /\ nc_2' = IF Len(nc_2) < capacity THEN Append(nc_2, ncall[g].s)
               ELSE Append(Tail(nc_2), ncall[g].s)
    /\ events' = Append(events, Event("send", ncall[g].s))
    /\ ncall' = [ncall EXCEPT ![g] = NoCall]
    /\ UNCHANGED <<capacity, scanVars, sendVars, idVars, later>>

\* select { case nc_2 <- s: default: } and the return
sendNotification_2(g) ==
    /\ ncall[g].op = "send"
    /\ nc_2' = IF Len(nc_2) < capacity THEN Append(nc_2, ncall[g].s) ELSE nc_2
    /\ events' = Append(events, Event("send", ncall[g].s))
    /\ ncall' = [ncall EXCEPT ![g] = NoCall]
    /\ UNCHANGED <<capacity, scanVars, sendVars, idVars, later>>

\* Mutant of receiveNotification_2: the receive without the default case.
receiveWaits(g) ==
    /\ ncall[g].op = "recv"
    /\ nc_2 # <<>>
    /\ nc_2' = Tail(nc_2)
    /\ events' = Append(events, Event("recv", Head(nc_2)))
    /\ ncall' = [ncall EXCEPT ![g] = NoCall]
    /\ UNCHANGED <<capacity, scanVars, sendVars, idVars, later>>

\* select { case s := <-nc_2: return s; default: return "" }
receiveNotification_2(g) ==
    /\ ncall[g].op = "recv"
    /\ IF nc_2 # <<>>
       THEN /\ nc_2' = Tail(nc_2)
            /\ events' = Append(events, Event("recv", Head(nc_2)))
       ELSE /\ nc_2' = nc_2
            /\ events' = Append(events, Event("recv", ""))
    /\ ncall' = [ncall EXCEPT ![g] = NoCall]
    /\ UNCHANGED <<capacity, scanVars, sendVars, idVars, later>>

NotifyNext ==
    \E g \in Goroutines :
        \/ CallSend(g)
        \/ CallReceive(g)
        \/ sendNotification_2(g)
        \/ receiveNotification_2(g)

NotifySpec == NotifyInit /\ [][NotifyNext]_vars


\* The selects p .. p+capacity are capacity+1 sends, the first of them on an
\* empty buffer.
OverflowAt(p) ==
    /\ p + capacity <= Len(events)
    /\ events[p].len = 0
    /\ \A r \in p..(p + capacity) : events[r].op = "send"
\* The j-th select after them is a receive, as are all the selects between.
ReceivedAfter(p, j) ==
    /\ p + capacity + j <= Len(events)
    /\ \A r \in (p + capacity + 1)..(p + capacity + j) : events[r].op = "recv"

\* C23: after capacity+1 sends on an empty channel with no receive between
\* them, the next capacity+1 receives return the first capacity strings in
\* the order they were sent, and then the empty string.
C23_DropWhenFullFIFO ==
    \A p \in 1..Len(events) : \A j \in 1..(capacity + 1) :
        (OverflowAt(p) /\ ReceivedAfter(p, j)) =>
            events[p + capacity + j].s =
                IF j <= capacity THEN events[p + j - 1].s ELSE ""
\* Four sends to a channel of capacity 3 and four receives have been
\* executed: "0", "1", "2" came back, and the empty string for "3".
C23_Witness ==
    /\ capacity = MaxCap
    /\ OverflowAt(1)
    /\ ReceivedAfter(1, capacity + 1)
    /\ events[1].s = "0"
    /\ events[capacity + 1].s = ToString(capacity)
    /\ events[capacity + 2].s = "0"
    /\ events[2 * capacity + 2].s = ""


\* C24: a goroutine inside sendNotification_2 or receiveNotification_2 can
\* always execute its select and return, whatever the buffer holds and
\* wherever the other goroutines are; a receive on an empty buffer returns
\* the empty string, and a send on a full buffer leaves the buffer as it is.
C24_NeverBlocks ==
    /\ [](\A g \in Goroutines :
            /\ ncall[g].op = "send" => ENABLED sendNotification_2(g)
            /\ ncall[g].op = "recv" => ENABLED receiveNotification_2(g))
    /\ [][\A g \in Goroutines :
            /\ (ncall[g].op # "idle" /\ ncall'[g].op = "idle") =>
                    /\ events' = Append(events, events'[Len(events')])
                    /\ \A h \in Goroutines \ {g} : ncall'[h] = ncall[h]
            /\ (ncall[g].op = "recv" /\ ncall'[g].op = "idle" /\ nc_2 = <<>>) =>
                    /\ events'[Len(events')].s = ""
                    /\ nc_2' = <<>>
            /\ (ncall[g].op = "send" /\ ncall'[g].op = "idle"
                    /\ Len(nc_2) = capacity) => nc_2' = nc_2]_vars
\* Both goroutines are inside a call, one sending to a full buffer; and a
\* send to a full buffer and a receive from an empty one have returned.
C24_Witness ==
    /\ ncall["g1"].op = "send"
    /\ ncall["g2"].op # "idle"
    /\ Len(nc_2) = capacity
    /\ \E p \in 1..Len(events) : events[p].op = "send" /\ events[p].len = capacity
    /\ \E p \in 1..Len(events) : events[p].op = "recv" /\ events[p].len = 0


\* ========================================================= send1 and send2
\* The goroutines wg.Go starts, in the order of the calls: the one that sends
\* on c (send1) or closes it (send2), and the two that receive and print.
Receivers == {"r1", "r2"}
Started == <<"first", "r1", "r2">>
SendProcs == {"main"} \cup {Started[i] : i \in 1..Len(Started)}
\* The positions of main in its i-th wg.Go, which is wg.Add(1) and then the
\* go statement, and its position after it.
AtGo(i) == <<"add1", "add2", "add3">>[i]
InGo(i) == <<"go1", "go2", "go3">>[i]
AfterGo(i) == IF i < Len(Started) THEN AtGo(i + 1) ELSE "wait"

\* c := make(chan int): open, without buffer, nobody waiting to receive or
\* to send.
MakeChan == [closed |-> FALSE, recvq |-> <<>>, sendq |-> <<>>]

\* c := make(chan int); var wg sync.WaitGroup
SendInit ==
    /\ ScanIdle /\ NotifyIdle /\ IDIdle /\ LaterIdle
    /\ fn \in {"send1", "send2"}
    /\ c_chan = MakeChan
    /\ wg = 0
    /\ spc = [g \in SendProcs |-> IF g = "main" THEN AtGo(1) ELSE "none"]
    /\ recvd = [r \in Receivers |-> <<>>]
    /\ stdout = <<>>

\* wg.Go(f), its wg.Add(1)
wgAdd(i) ==
    /\ spc["main"] = AtGo(i)
    /\ wg' = wg + 1
    /\ spc' = [spc EXCEPT !["main"] = InGo(i)]
    /\ UNCHANGED <<fn, c_chan, recvd, stdout, scanVars, notifyVars, idVars, later>>

\* wg.Go(f), its go statement: the goroutine that runs f and then wg.Done
\* is started.
wgGo(i) ==
    /\ spc["main"] = InGo(i)
    /\ spc' = [spc EXCEPT !["main"] = AfterGo(i), ![Started[i]] = "start"]
    /\ UNCHANGED <<fn, c_chan, wg, recvd, stdout, scanVars, notifyVars, idVars, later>>

\* send1, c <- 1: c has no buffer, so the value goes to the goroutine that
\* has waited longest at <-c, and the sender waits when there is none.
Send ==
    /\ fn = "send1"
    /\ spc["first"] = "start"
    /\ IF c_chan.recvq # <<>>
       THEN /\ recvd' = [recvd EXCEPT ![Head(c_chan.recvq)] = <<1>>]
            /\ spc' = [spc EXCEPT !["first"] = "ran", ![Head(c_chan.recvq)] = "print"]
            /\ c_chan' = [c_chan EXCEPT !.recvq = Tail(@)]
       ELSE /\ recvd' = recvd
            /\ spc' = [spc EXCEPT !["first"] = "parked"]
            /\ c_chan' = [c_chan EXCEPT !.sendq = Append(@, "first")]
    /\ UNCHANGED <<fn, wg, stdout, scanVars, notifyVars, idVars, later>>

\* Mutant of Close: the goroutine returns without closing c.
CloseForgotten ==
    /\ fn = "send2"
    /\ spc["first"] = "start"
    /\ spc' = [spc EXCEPT !["first"] = "ran"]
    /\ UNCHANGED <<fn, c_chan, wg, recvd, stdout, scanVars, notifyVars, idVars, later>>

\* send2, close(c): every goroutine waiting at <-c gets the zero value and
\* runs again.
Close ==
    /\ fn = "send2"
    /\ spc["first"] = "start"
    /\ LET waiting == {c_chan.recvq[i] : i \in 1..Len(c_chan.recvq)}
       IN /\ recvd' = [r \in Receivers |-> IF r \in waiting THEN <<0>> ELSE recvd[r]]
          /\ spc' = [g \in SendProcs |->
                        IF g = "first" THEN "ran"
                        ELSE IF g \in waiting THEN "print" ELSE spc[g]]
    /\ c_chan' = [c_chan EXCEPT !.closed = TRUE, !.recvq = <<>>]
    /\ UNCHANGED <<fn, wg, stdout, scanVars, notifyVars, idVars, later>>

\* <-c: the zero value from a closed channel, the value of a waiting sender,
\* or the goroutine waits.
Receive(r) ==
    /\ spc[r] = "start"
    /\ IF c_chan.closed
       THEN /\ recvd' = [recvd EXCEPT ![r] = <<0>>]
            /\ spc' = [spc EXCEPT ![r] = "print"]
            /\ c_chan' = c_chan
       ELSE IF c_chan.sendq # <<>>
            THEN /\ recvd' = [recvd EXCEPT ![r] = <<1>>]
                 /\ spc' = [spc EXCEPT ![r] = "print", ![Head(c_chan.sendq)] = "ran"]
                 /\ c_chan' = [c_chan EXCEPT !.sendq = Tail(@)]
            ELSE /\ recvd' = recvd
                 /\ spc' = [spc EXCEPT ![r] = "parked"]
                 /\ c_chan' = [c_chan EXCEPT !.recvq = Append(@, r)]
    /\ UNCHANGED <<fn, wg, stdout, scanVars, notifyVars, idVars, later>>

\* fmt.Println of the value received
Println(r) ==
    /\ spc[r] = "print"
    /\ stdout' = Append(stdout, recvd[r][1])
    /\ spc' = [spc EXCEPT ![r] = "ran"]
    /\ UNCHANGED <<fn, c_chan, wg, recvd, scanVars, notifyVars, idVars, later>>

\* The wg.Done that wg.Go runs when the function of the goroutine returns.
wgDone(g) ==
    /\ spc[g] = "ran"
    /\ wg' = wg - 1
    /\ spc' = [spc EXCEPT ![g] = "done"]
    /\ UNCHANGED <<fn, c_chan, recvd, stdout, scanVars, notifyVars, idVars, later>>

\* wg.Wait() and the return of the function
wgWait ==
    /\ spc["main"] = "wait"
    /\ wg = 0
    /\ spc' = [spc EXCEPT !["main"] = "done"]
    /\ UNCHANGED <<fn, c_chan, wg, recvd, stdout, scanVars, notifyVars, idVars, later>>

SendNext ==
    \/ \E i \in 1..Len(Started) : wgAdd(i)
    \/ \E i \in 1..Len(Started) : wgGo(i)
    \/ Send
    \/ Close
    \/ \E r \in Receivers : Receive(r)
    \/ \E r \in Receivers : Println(r)
    \/ \E g \in SendProcs \ {"main"} : wgDone(g)
    \/ wgWait

\* The scheduler runs every goroutine that can take a step.
SendFairness ==
    /\ WF_vars(\E i \in 1..Len(Started) : wgAdd(i) \/ wgGo(i))
    /\ WF_vars(wgWait)
    /\ WF_vars(Send)
    /\ WF_vars(Close)
    /\ WF_vars(wgDone("first"))
    /\ \A r \in Receivers :
          WF_vars(Receive(r)) /\ WF_vars(Println(r)) /\ WF_vars(wgDone(r))

SendSpec == SendInit /\ [][SendNext]_vars /\ SendFairness

\* C25: send2 returns in every run, with 0 printed twice, and no receiver
\* ever gets another value than 0 from the closed channel, whether it came
\* to <-c before the close or after it.
C25_Send2Terminates ==
    (fn = "send2") =>
        /\ <>(spc["main"] = "done" /\ stdout = <<0, 0>>)
        /\ [](\A r \in Receivers : recvd[r] \in {<<>>, <<0>>})
        /\ [](c_chan.closed => c_chan.recvq = <<>>)
\* send2 has returned after both receivers got 0 from the closed channel and
\* printed it.
C25_Witness ==
    /\ fn = "send2"
    /\ spc["main"] = "done"
    /\ c_chan.closed
    /\ \A r \in Receivers : recvd[r] = <<0>>
    /\ stdout = <<0, 0>>


\* ============================================== IDGenerator with a mutex
\* g := NewIDGenerator("gopher-"), the goroutines that call g.NewID and the
\* number of calls they make in all.
IDPrefix == "gopher-"
IDCallers == {"a", "b", "c"}
MaxNewID == 4

\* The calls of NewID that have not yet produced their ID, and the calls begun.
IDsPending ==
    Cardinality({g \in IDCallers : ipc[g] \in {"lock", "load", "store", "format"}})
IDCallsBegun == Len(ids) + IDsPending

\* return &IDGenerator{prefix: prefix}
IDInit ==
    /\ ScanIdle /\ NotifyIdle /\ SendIdle /\ LaterIdle
    /\ mu = <<>>
    /\ num = 0
    /\ ipc = [g \in IDCallers |-> "idle"]
    /\ loaded = [g \in IDCallers |-> 0]
    /\ ids = <<>>

\* A goroutine calls g.NewID().
CallNewID(g) ==
    /\ ipc[g] = "idle"
    /\ IDCallsBegun < MaxNewID
    /\ ipc' = [ipc EXCEPT ![g] = "lock"]
    /\ UNCHANGED <<mu, num, loaded, ids, scanVars, notifyVars, sendVars, later>>

\* Mutant of Lock: the mutex is taken whether or not it is held.
LockUnchecked(g) ==
    /\ ipc[g] = "lock"
    /\ mu' = <<g>>
    /\ ipc' = [ipc EXCEPT ![g] = "load"]
    /\ UNCHANGED <<num, loaded, ids, scanVars, notifyVars, sendVars, later>>

\* g.mu.Lock()
Lock(g) ==
    /\ ipc[g] = "lock"
    /\ mu = <<>>
    /\ mu' = <<g>>
    /\ ipc' = [ipc EXCEPT ![g] = "load"]
    /\ UNCHANGED <<num, loaded, ids, scanVars, notifyVars, sendVars, later>>

\* g.num++, the read of g.num
Load(g) ==
    /\ ipc[g] = "load"
    /\ loaded' = [loaded EXCEPT ![g] = num]
    /\ ipc' = [ipc EXCEPT ![g] = "store"]
    /\ UNCHANGED <<mu, num, ids, scanVars, notifyVars, sendVars, later>>

\* g.num++, the write of g.num
Store(g) ==
    /\ ipc[g] = "store"
    /\ num' = loaded[g] + 1
    /\ ipc' = [ipc EXCEPT ![g] = "format"]
    /\ UNCHANGED <<mu, loaded, ids, scanVars, notifyVars, sendVars, later>>

\* fmt.Sprintf("%s%d", g.prefix, g.num)
Sprintf(p, n) == <<p, ToString(n)>>
Format(g) ==
    /\ ipc[g] = "format"
    /\ ids' = Append(ids, [by |-> g, id |-> Sprintf(IDPrefix, num)])
    /\ ipc' = [ipc EXCEPT ![g] = "unlock"]
    /\ UNCHANGED <<mu, num, loaded, scanVars, notifyVars, sendVars, later>>

\* The deferred g.mu.Unlock() and the return
Unlock(g) ==
    /\ ipc[g] = "unlock"
    /\ mu' = <<>>
    /\ ipc' = [ipc EXCEPT ![g] = "idle"]
    /\ UNCHANGED <<num, loaded, ids, scanVars, notifyVars, sendVars, later>>

IDNext ==
    \E g \in IDCallers :
        \/ CallNewID(g)
        \/ Lock(g)
        \/ Load(g)
        \/ Store(g)
        \/ Format(g)
        \/ Unlock(g)

IDSpec == IDInit /\ [][IDNext]_vars

\* C26: the i-th ID NewID produces is the prefix followed by i, so no two
\* calls produce the same ID, whichever goroutines make the calls and however
\* they interleave.
C26_IDsUnique ==
    /\ \A i \in 1..Len(ids) : ids[i].id = <<IDPrefix, ToString(i)>>
    /\ \A i, j \in 1..Len(ids) : i # j => ids[i].id # ids[j].id
\* Calls of different goroutines that were in NewID at the same time have
\* returned gopher-1 .. gopher-4.
C26_Witness ==
    /\ Len(ids) = MaxNewID
    /\ \A g \in IDCallers : ipc[g] = "idle"
    /\ \E i, j \in 1..Len(ids) : ids[i].by # ids[j].by
    /\ ids[1].id = <<"gopher-", "1">>
    /\ ids[MaxNewID].id = <<"gopher-", ToString(MaxNewID)>>

\* ================================================ block emphasis, closing
\* The text of the buffer that stands before its last close marker.
BeforeLastClose(buf) ==
    LET hits == {i \in 0..(Len(buf) - Len(emCloseMarker)) :
                    SubSeq(buf, i + 1, i + Len(emCloseMarker)) = emCloseMarker}
        last == CHOOSE i \in hits : \A j \in hits : j <= i
    IN SubSeq(buf, 1, last)
\* The number of line terminators of a text.
RECURSIVE Terminators(_)
Terminators(s) ==
    IF s = <<>> THEN 0
    ELSE (IF Head(s) = NL THEN 1 ELSE 0) + Terminators(Tail(s))

\* C31: when "// !em" is read in an open Code or CodeBad block whose buffer
\* ends with a blank line, the step does not fail, the block stays open, and
\* the buffer becomes the old buffer without its last blank line (one line
\* terminator less, the rest unchanged), followed by the close marker and a
\* newline: the text before the close marker is the old buffer less exactly
\* that one blank line.
C31_EndEmStripsBlankLine ==
    [][(InCode /\ EndsWithBlankLine(current) /\ ScanLine(L_endem)) =>
          /\ err' = NoError
          /\ kind' = kind
          /\ slide' = slide
          /\ current' = DropLast(current) \o emCloseMarker \o <<NL>>
          /\ BeforeLastClose(current') \o <<NL>> = current
          /\ Terminators(BeforeLastClose(current')) = Terminators(current) - 1]_vars
\* "// !em" has been read after two blank lines in a code block: one of the
\* two is left before the close marker.
C31_Witness ==
    /\ kind = sectionCode
    /\ block = <<L_blank, L_blank, L_endem>>
    /\ current = <<NL>> \o emCloseMarker \o <<NL>>
\* "// !em" has been read after an opened emphasis, a code line and a blank line.
C31_WitnessRegion ==
    /\ kind = sectionCode
    /\ block = <<L_plain, L_blank, L_endem>>
    /\ current = <<"x", NL>> \o emCloseMarker \o <<NL>>

\* ============================================ rendering, special characters
\* The characters that are special in HTML, and the entity of each.
RawSpecials == {"<", ">", "&", "'", "\""}
Unescaped(s) ==
    [i \in 1..Len(s) |->
        CASE s[i] = "&lt;" -> "<"
          [] s[i] = "&gt;" -> ">"
          [] s[i] = "&amp;" -> "&"
          [] s[i] = "&#39;" -> "'"
          [] s[i] = "&#34;" -> "\""
          [] OTHER -> s[i]]
\* The written text with the markers back in the place of the emphasis tags
\* of the style, and without the comment and definition tags.
MarkersBack(s, style) ==
    ReplaceAll(ReplaceAll(s, emOpen(style), emOpenMarker), emClose(style), emCloseMarker)
\* The scanned line without the indentation that renderCode removes: it
\* stands at the start of the line or after the marker that starts the line.
Flush(s) ==
    IF HasPrefix(s, emOpenMarker)
    THEN emOpenMarker \o TrimLeft(SubSeq(s, Len(emOpenMarker) + 1, Len(s)), {SP})
    ELSE TrimLeft(s, {SP})
\* A code section of one line whose text holds special characters.
EscapeCase ==
    /\ Len(result) = 1
    /\ Len(result[1].sections) = 1
    /\ result[1].sections[1].kind = sectionCode
    /\ \E i \in 1..Len(CodeScanned) : CodeScanned[i] \in RawSpecials

\* C32: in what renderCode returns for a code line, no special character and
\* no marker stands unescaped; taking the comment and definition tags away
\* and putting the markers back for the emphasis tags of the style gives the
\* scanned line with each special character replaced by its entity: the
\* emphasis tags stand exactly where the markers stood, every other tag is a
\* comment or definition tag, and all other text is the escaped input.
C32_LiteralTextEscaped ==
    (pc = "written" /\ EscapeCase) =>
        /\ \A i \in 1..Len(CodeWritten) : CodeWritten[i] \notin RawSpecials \cup {NUL}
        /\ \E style \in EmStyles :
              /\ Unescaped(Untagged(MarkersBack(CodeWritten, style))) = Flush(CodeScanned)
              /\ \A i \in 1..Len(Untagged(MarkersBack(CodeWritten, style))) :
                    Flush(CodeScanned)[i] \in RawSpecials
                        => Untagged(MarkersBack(CodeWritten, style))[i] # Flush(CodeScanned)[i]
\* A line after "// em", with an inline emphasis, a string holding the text
\* of a tag and a comment holding special characters, written in bold.
C32_Witness ==
    /\ pc = "written"
    /\ CodeScanned =
           emOpenMarker \o <<SP, SP>> \o emOpenMarker \o <<"foo">> \o emCloseMarker
           \o <<SP, "=", SP, "\"", "<", "b", ">", "x", "<", "/", "b", ">", "\"">>
           \o <<SP, "/", "/", SP, "<", "defn", ">", SP, "&", SP, "\"", "q", "\"">>
    /\ CodeWritten =
           <<"<b>", "<b>", "foo", "</b>", SP, "=", SP, "&#34;", "&lt;", "b", "&gt;",
             "x", "&lt;", "/", "b", "&gt;", "&#34;", SP, "<comment>", "/", "/", SP,
             "&lt;", "defn", "&gt;", SP, "&amp;", SP, "&#34;", "q", "&#34;",
             "</comment>">>

\* ============================================ WaitGroup (slides/waitgroup)
\* Two WaitGroups of the slides: the one with a mutex (waitgroup/6), whose
\* add makes the channel when it is nil and closes it and sets it to nil when
\* the count reaches zero, and the one with an atomic counter (waitgroup/5),
\* whose channel is made once by NewWaitGroup.  main calls Go and Wait in any
\* order; every goroutine started by Go runs f and then add(-1).

\* The variables of the programs modelled before the WaitGroups.
earlier == <<scanVars, notifyVars, sendVars, idVars>>
EarlierIdle == ScanIdle /\ NotifyIdle /\ SendIdle /\ IDIdle

\* Number of Go calls main makes.
MaxGo == 3
NilChan == 0
WGMain == 0
WGGoroutines == 1..MaxGo
WGProcs == {WGMain} \cup WGGoroutines
\* The argument of add: Go calls add(1), the goroutine defers add(-1).
Delta(p) == IF p = WGMain THEN 1 ELSE -1
\* A close of a closed channel, or of a nil channel, panics: the program ends.
Panicked == \E p \in WGProcs : wpc[p] = "panic"
\* The goroutine the next Go call starts.
NextGoroutine == CHOOSE i \in WGGoroutines :
                     wpc[i] = "unborn" /\ \A j \in WGGoroutines : wpc[j] = "unborn" => i <= j
\* A write of g.done by p: main reads its own writes; a write of another
\* goroutine may or may not be what a read without the lock returns.
Written(p, v) == IF p = WGMain THEN {v} ELSE views \cup {v}

\* var g WaitGroup: the zero value, the channel is nil.
WGInit ==
    /\ EarlierIdle /\ CountIdle /\ RunIdle
    /\ g_mu = {}
    /\ g_count = 0
    /\ g_done = NilChan
    /\ chans = <<>>
    /\ wpc = [p \in WGProcs |-> IF p = WGMain THEN "idle" ELSE "unborn"]
    /\ local_c = [p \in WGProcs |-> 0]
    /\ wait_d = NilChan
    /\ views = {NilChan}

\* g.Go(f): g.add(1) is called.
GoCall ==
    /\ ~Panicked
    /\ wpc[WGMain] = "idle"
    /\ \E i \in WGGoroutines : wpc[i] = "unborn"
    /\ wpc' = [wpc EXCEPT ![WGMain] = "add"]
    /\ UNCHANGED <<g_mu, g_count, g_done, chans, local_c, wait_d, views, earlier, besideWG>>

\* go func() { defer g.add(-1); f() }()
GoStart ==
    /\ ~Panicked
    /\ wpc[WGMain] = "go"
    /\ wpc' = [wpc EXCEPT ![WGMain] = "idle", ![NextGoroutine] = "f"]
    /\ UNCHANGED <<g_mu, g_count, g_done, chans, local_c, wait_d, views, earlier, besideWG>>

\* f() returns: the deferred g.add(-1) is called.
fReturn(p) ==
    /\ ~Panicked
    /\ wpc[p] = "f"
    /\ wpc' = [wpc EXCEPT ![p] = "add"]
    /\ UNCHANGED <<g_mu, g_count, g_done, chans, local_c, wait_d, views, earlier, besideWG>>

\* g.mu.Lock()
addLock(p) ==
    /\ ~Panicked
    /\ wpc[p] = "add"
    /\ g_mu = {}
    /\ g_mu' = {p}
    /\ wpc' = [wpc EXCEPT ![p] = "nil?"]
    /\ views' = IF p = WGMain THEN {g_done} ELSE views
    /\ UNCHANGED <<g_count, g_done, chans, local_c, wait_d, earlier, besideWG>>

\* if g.done == nil { g.done = make(chan struct{}) }
addMake(p) ==
    /\ ~Panicked
    /\ wpc[p] = "nil?"
    /\ IF g_done = NilChan
       THEN /\ chans' = Append(chans, 0)
            /\ g_done' = Len(chans) + 1
            /\ views' = Written(p, Len(chans) + 1)
       ELSE UNCHANGED <<chans, g_done, views>>
    /\ wpc' = [wpc EXCEPT ![p] = "count"]
    /\ UNCHANGED <<g_mu, g_count, local_c, wait_d, earlier, besideWG>>

\* g.count += n; if g.count == 0
addCount(p) ==
    /\ ~Panicked
    /\ wpc[p] = "count"
    /\ g_count' = g_count + Delta(p)
    /\ wpc' = [wpc EXCEPT ![p] = IF g_count + Delta(p) = 0 THEN "close" ELSE "unlock"]
    /\ UNCHANGED <<g_mu, g_done, chans, local_c, wait_d, views, earlier, besideWG>>

\* close(g.done)
addClose(p) ==
    /\ ~Panicked
    /\ wpc[p] = "close"
    /\ IF g_done = NilChan
       THEN /\ wpc' = [wpc EXCEPT ![p] = "panic"]
            /\ chans' = chans
       ELSE /\ chans' = [chans EXCEPT ![g_done] = @ + 1]
            /\ wpc' = [wpc EXCEPT ![p] = IF chans[g_done] > 0 THEN "panic" ELSE "setnil"]
    /\ UNCHANGED <<g_mu, g_count, g_done, local_c, wait_d, views, earlier, besideWG>>

\* Mutant of addSetNil: the closed channel stays in g.done.
addKeepDone(p) ==
    /\ ~Panicked
    /\ wpc[p] = "setnil"
    /\ wpc' = [wpc EXCEPT ![p] = "unlock"]
    /\ UNCHANGED <<g_mu, g_count, g_done, chans, local_c, wait_d, views, earlier, besideWG>>

\* g.done = nil
addSetNil(p) ==
    /\ ~Panicked
    /\ wpc[p] = "setnil"
    /\ g_done' = NilChan
    /\ views' = Written(p, NilChan)
    /\ wpc' = [wpc EXCEPT ![p] = "unlock"]
    /\ UNCHANGED <<g_mu, g_count, chans, local_c, wait_d, earlier, besideWG>>

\* defer g.mu.Unlock(), and the return of add: to the go statement in Go, to
\* the end of the goroutine in the deferred call.
addUnlock(p) ==
    /\ ~Panicked
    /\ wpc[p] = "unlock"
    /\ g_mu' = {}
    /\ wpc' = [wpc EXCEPT ![p] = IF p = WGMain THEN "go" ELSE "exited"]
    /\ UNCHANGED <<g_count, g_done, chans, local_c, wait_d, views, earlier, besideWG>>

\* g.Wait(): the operand of <-g.done is evaluated, without the lock.
WaitRead ==
    /\ ~Panicked
    /\ wpc[WGMain] = "idle"
    /\ \E d \in views : wait_d' = d
    /\ wpc' = [wpc EXCEPT ![WGMain] = "recv"]
    /\ UNCHANGED <<g_mu, g_count, g_done, chans, local_c, views, earlier, besideWG>>

\* Mutant of WaitReceive: a receive from a nil channel returns like a receive
\* from a closed channel.
WaitReceiveNil ==
    /\ ~Panicked
    /\ wpc[WGMain] = "recv"
    /\ (wait_d = NilChan \/ chans[wait_d] > 0)
    /\ wpc' = [wpc EXCEPT ![WGMain] = "idle"]
    /\ UNCHANGED <<g_mu, g_count, g_done, chans, local_c, wait_d, views, earlier, besideWG>>

\* <-g.done: a receive from a closed channel returns, a receive from an open
\* channel that nothing is sent to and from a nil channel waits.
WaitReceive ==
    /\ ~Panicked
    /\ wpc[WGMain] = "recv"
    /\ wait_d # NilChan
    /\ chans[wait_d] > 0
    /\ wpc' = [wpc EXCEPT ![WGMain] = "idle"]
    /\ UNCHANGED <<g_mu, g_count, g_done, chans, local_c, wait_d, views, earlier, besideWG>>

WGNext ==
    \/ GoCall
    \/ GoStart
    \/ \E p \in WGGoroutines : fReturn(p)
    \/ \E p \in WGProcs :
          addLock(p) \/ addMake(p) \/ addCount(p) \/ addClose(p) \/ addSetNil(p)
          \/ addUnlock(p)
    \/ WaitRead
    \/ WaitReceive

WGSpec == WGInit /\ [][WGNext]_vars

\* C33: with the mutex WaitGroup no channel is closed twice and no close
\* panics, in every interleaving of Go calls, Wait calls and goroutines,
\* also when Go is called again after the count has returned to zero.
C33_NoDoubleClose ==
    /\ \A k \in 1..Len(chans) : chans[k] <= 1
    /\ ~Panicked
\* A second wave: the channel of the first wave has been closed, and the
\* channel made by a later Go call has been closed as well.
C33_Witness ==
    /\ Len(chans) >= 2
    /\ chans[1] = 1
    /\ chans[2] = 1
    /\ g_done = NilChan

\* Every goroutine that was started has returned from its add(-1).
GroupCompleted ==
    /\ \E i \in WGGoroutines : wpc[i] = "exited"
    /\ \A i \in WGGoroutines : wpc[i] \in {"unborn", "exited"}
\* main is in Wait, receiving from the nil channel it read from g.done.
WaitsOnNil == wpc[WGMain] = "recv" /\ wait_d = NilChan

\* C34: a Wait that has read nil from g.done never returns: main stays in the
\* receive whatever happens afterwards, and the receive is never enabled, also
\* when the count is zero and every goroutine has completed.
C34_WaitOnNilNeverReturns ==
    /\ [][WaitsOnNil => (wpc'[WGMain] = "recv" /\ wait_d' = NilChan)]_vars
    /\ [](WaitsOnNil => ~ENABLED WaitReceive)
\* The first group has completed, its channel is closed and g.done is nil, the
\* count is zero, and main waits in Wait on the nil channel.
C34_Witness ==
    /\ WaitsOnNil
    /\ GroupCompleted
    /\ g_count = 0
    /\ g_done = NilChan
    /\ chans = <<1>>

\* ------------------------------------- WaitGroup with an atomic counter
\* NewWaitGroup: &WaitGroup{done: make(chan struct{})}
AtomicInit ==
    /\ EarlierIdle /\ CountIdle /\ RunIdle
    /\ g_mu = {}
    /\ g_count = 0
    /\ g_done = 1
    /\ chans = <<0>>
    /\ wpc = [p \in WGProcs |-> IF p = WGMain THEN "idle" ELSE "unborn"]
    /\ local_c = [p \in WGProcs |-> 0]
    /\ wait_d = NilChan
    /\ views = {1}

\* c := g.count.Add(int64(n))
countAdd(p) ==
    /\ ~Panicked
    /\ wpc[p] = "add"
    /\ g_count' = g_count + Delta(p)
    /\ local_c' = [local_c EXCEPT ![p] = g_count + Delta(p)]
    /\ wpc' = [wpc EXCEPT ![p] = "zero?"]
    /\ UNCHANGED <<g_mu, g_done, chans, wait_d, views, earlier, besideWG>>

\* Mutant of closeIfZero: a closed channel is not closed again.
closeIfOpen(p) ==
    /\ ~Panicked
    /\ wpc[p] = "zero?"
    /\ chans' = IF local_c[p] = 0 /\ chans[g_done] = 0
                THEN [chans EXCEPT ![g_done] = @ + 1] ELSE chans
    /\ wpc' = [wpc EXCEPT ![p] = IF p = WGMain THEN "go" ELSE "exited"]
    /\ UNCHANGED <<g_mu, g_count, g_done, local_c, wait_d, views, earlier, besideWG>>

\* if c == 0 { close(g.done) }, and the return of add.
closeIfZero(p) ==
    /\ ~Panicked
    /\ wpc[p] = "zero?"
    /\ IF local_c[p] = 0
       THEN /\ chans' = [chans EXCEPT ![g_done] = @ + 1]
            /\ wpc' = [wpc EXCEPT ![p] = IF chans[g_done] > 0 THEN "panic"
                                         ELSE IF p = WGMain THEN "go" ELSE "exited"]
       ELSE /\ chans' = chans
            /\ wpc' = [wpc EXCEPT ![p] = IF p = WGMain THEN "go" ELSE "exited"]
    /\ UNCHANGED <<g_mu, g_count, g_done, local_c, wait_d, views, earlier, besideWG>>

AtomicNext ==
    \/ GoCall
    \/ GoStart
    \/ \E p \in WGGoroutines : fReturn(p)
    \/ \E p \in WGProcs : countAdd(p) \/ closeIfZero(p)
    \/ WaitRead
    \/ WaitReceive

AtomicSpec == AtomicInit /\ [][AtomicNext]_vars

\* The add(-1) calls that got zero from the atomic add and have gone through
\* the if statement.
ClosedOnZero ==
    {p \in WGGoroutines : wpc[p] \in {"exited", "panic"} /\ local_c[p] = 0}

\* C35: with the atomic WaitGroup every add that gets zero from the atomic
\* add executes close(g.done), whatever the channel's state: the channel has
\* been closed as often as add calls observed zero, and the program panics
\* exactly when a second close is executed.  The witness is the execution in
\* which two add(-1) calls both observed zero.
C35_EveryZeroCloses ==
    /\ chans[1] = Cardinality(ClosedOnZero)
    /\ Panicked <=> chans[1] >= 2
\* Two add(-1) calls have observed zero, close(g.done) has been executed
\* twice, and the second one panicked.
C35_Witness ==
    /\ Cardinality(ClosedOnZero) = 2
    /\ chans[1] = 2
    /\ Panicked

\* ================================================= counter with a mutex
\* slides/mutexes/40: main starts count twice with wg.Go, waits and prints c;
\* count increments c in a loop, each c++ between mu.Lock and mu.Unlock.
\* c++ is a load of c into a register and a store of the register plus one.

\* Iterations of the loop of count (20_000 in the source).
MaxIter == 3
Counters == {"g1", "g2"}
CountProcs == {"main"} \cup Counters
\* The goroutine is between mu.Lock() and mu.Unlock().
InCritical(g) == cpc[g] \in {"load", "store", "unlock"}

\* var mu sync.Mutex; var c int; var wg sync.WaitGroup
CountInit ==
    /\ EarlierIdle /\ WGIdle /\ RunIdle
    /\ m_mu = {}
    /\ c_var = 0
    /\ cpc = [p \in CountProcs |-> IF p = "main" THEN "go1" ELSE "unborn"]
    /\ R0 = [g \in Counters |-> 0]
    /\ iters = [g \in Counters |-> 0]
    /\ sync_wg = 0
    /\ printed = <<>>

\* wg.Go(count), the first and the second one.
mainGo ==
    /\ cpc["main"] \in {"go1", "go2"}
    /\ sync_wg' = sync_wg + 1
    /\ cpc' = IF cpc["main"] = "go1"
              THEN [cpc EXCEPT !["main"] = "go2", !["g1"] = "lock"]
              ELSE [cpc EXCEPT !["main"] = "wait", !["g2"] = "lock"]
    /\ UNCHANGED <<m_mu, c_var, R0, iters, printed, earlier, besideCount>>

\* Mutant of muLock: the lock is taken whoever holds it.
muLockUnchecked(g) ==
    /\ cpc[g] = "lock"
    /\ m_mu' = {g}
    /\ cpc' = [cpc EXCEPT ![g] = "load"]
    /\ UNCHANGED <<c_var, R0, iters, sync_wg, printed, earlier, besideCount>>

\* mu.Lock()
muLock(g) ==
    /\ cpc[g] = "lock"
    /\ m_mu = {}
    /\ m_mu' = {g}
    /\ cpc' = [cpc EXCEPT ![g] = "load"]
    /\ UNCHANGED <<c_var, R0, iters, sync_wg, printed, earlier, besideCount>>

\* c++: R0 = c
cLoad(g) ==
    /\ cpc[g] = "load"
    /\ R0' = [R0 EXCEPT ![g] = c_var]
    /\ cpc' = [cpc EXCEPT ![g] = "store"]
    /\ UNCHANGED <<m_mu, c_var, iters, sync_wg, printed, earlier, besideCount>>

\* c++: R0++; c = R0
cStore(g) ==
    /\ cpc[g] = "store"
    /\ c_var' = R0[g] + 1
    /\ cpc' = [cpc EXCEPT ![g] = "unlock"]
    /\ UNCHANGED <<m_mu, R0, iters, sync_wg, printed, earlier, besideCount>>

\* mu.Unlock(), and the next iteration of for range 20_000 if there is one.
muUnlock(g) ==
    /\ cpc[g] = "unlock"
    /\ m_mu' = m_mu \ {g}
    /\ iters' = [iters EXCEPT ![g] = @ + 1]
    /\ cpc' = [cpc EXCEPT ![g] = IF iters[g] + 1 < MaxIter THEN "lock" ELSE "return"]
    /\ UNCHANGED <<c_var, R0, sync_wg, printed, earlier, besideCount>>

\* count returns: the goroutine started by wg.Go is done.
countReturn(g) ==
    /\ cpc[g] = "return"
    /\ sync_wg' = sync_wg - 1
    /\ cpc' = [cpc EXCEPT ![g] = "exited"]
    /\ UNCHANGED <<m_mu, c_var, R0, iters, printed, earlier, besideCount>>

\* wg.Wait()
mainWait ==
    /\ cpc["main"] = "wait"
    /\ sync_wg = 0
    /\ cpc' = [cpc EXCEPT !["main"] = "print"]
    /\ UNCHANGED <<m_mu, c_var, R0, iters, sync_wg, printed, earlier, besideCount>>

\* fmt.Println(c)
mainPrintln ==
    /\ cpc["main"] = "print"
    /\ printed' = Append(printed, c_var)
    /\ cpc' = [cpc EXCEPT !["main"] = "exit"]
    /\ UNCHANGED <<m_mu, c_var, R0, iters, sync_wg, earlier, besideCount>>

CountNext ==
    \/ mainGo
    \/ \E g \in Counters :
          muLock(g) \/ cLoad(g) \/ cStore(g) \/ muUnlock(g) \/ countReturn(g)
    \/ mainWait
    \/ mainPrintln

CountSpec == CountInit /\ [][CountNext]_vars

\* The increments a goroutine has performed: one for every iteration done,
\* and one when it has stored c in the iteration it is in.
Increments(g) == iters[g] + (IF cpc[g] = "unlock" THEN 1 ELSE 0)

\* C36: at most one goroutine is between mu.Lock and mu.Unlock; c is the
\* number of increments the two goroutines have performed; and what main
\* prints after wg.Wait is the total number of increments of the two loops.
C36_CounterExact ==
    /\ Cardinality({g \in Counters : InCritical(g)}) <= 1
    /\ c_var = Increments("g1") + Increments("g2")
    /\ cpc["main"] \in {"print", "exit"} =>
           (\A g \in Counters : cpc[g] = "exited" /\ iters[g] = MaxIter)
    /\ printed # <<>> => printed = <<2 * MaxIter>>
\* main has printed the total after both goroutines ran their loops.
C36_Witness ==
    /\ cpc["main"] = "exit"
    /\ printed = <<2 * MaxIter>>
    /\ c_var = 2 * MaxIter

\* ============================================ scanFile, the buffer per section
\* The sections recorded so far, in slide order.
Recorded(ss, s) == Flatten(Append(ss, s))
\* A step of the loop that read a line without error.
LineDone == pc = "scan" /\ pc' = "scan" /\ lineNum' = lineNum + 1

\* C37: while the scan goes on, the buffer is empty whenever no section is
\* open.  Every step that reads a line without error and changes the open
\* kind leaves the buffer empty; the buffer changes only while a section is
\* open, and then it is emptied or keeps what it held (but for the newline a
\* "// !em" takes off) and grows at its end; and every section the step
\* records holds either the buffer of the section that was open (as it is,
\* or without its last newline), the buffer being empty afterwards, or it is
\* a Text or HTML section recorded by a directive from its own line, the
\* buffer and the open kind staying as they are.
C37_BufferPerSection ==
    /\ []((pc = "scan" /\ kind = sectionUndefined) => current = <<>>)
    /\ [][LineDone =>
             LET old == Recorded(slides, slide)
                 new == Recorded(slides', slide')
             IN /\ kind' # kind => current' = <<>>
                /\ current' # current =>
                      /\ kind # sectionUndefined
                      /\ \/ current' = <<>>
                         \/ /\ HasPrefix(current', TrimSuffix(current, <<NL>>))
                            /\ Len(current') > Len(current)
                /\ Len(new) \in {Len(old), Len(old) + 1}
                /\ SubSeq(new, 1, Len(old)) = old
                /\ Len(new) = Len(old) + 1 =>
                      \/ /\ new[Len(new)].kind \in {sectionText, sectionHTML}
                         /\ current' = current
                         /\ kind' = kind
                      \/ /\ kind # sectionUndefined
                         /\ new[Len(new)].kind = kind
                         /\ new[Len(new)].content
                                \in {current, TrimSuffix(current, <<NL>>)}
                         /\ current' = <<>>]_vars
\* A question of one line has been recorded, its answer is open, and the
\* buffer holds the line of the answer only.
C37_Witness ==
    /\ pc = "scan"
    /\ slide.sections = <<Section(sectionQuestion, <<"para", NL>>)>>
    /\ kind = sectionAnswer
    /\ block = <<L_plain>>
    /\ current = <<"x", NL>>

\* ================================================ scanFile, section order
\* s is t with at most one section more at its end.
GrowsByOne(s, t) ==
    /\ Len(s) \in {Len(t), Len(t) + 1}
    /\ SubSeq(s, 1, Len(t)) = t

\* C38: a step that reads a line without error either leaves the finished
\* slides alone and adds at most one section at the end of the slide in
\* progress, or (a heading after a section) moves the slide in progress, as it
\* is, to the end of the finished slides and starts a slide without sections;
\* and a successful return gives the finished slides followed by the slide in
\* progress.  So the sections of the result, in slide order, are the sections
\* in the order they were completed, each in the slide that was in progress.
C38_SectionsInCompletionOrder ==
    [][(pc = "scan" /\ err' = NoError) =>
          IF pc' = "returned"
          THEN result' = Append(slides, slide)
          ELSE \/ /\ slides' = slides
                  /\ GrowsByOne(slide'.sections, slide.sections)
               \/ /\ slides' = Append(slides, slide)
                  /\ slide.sections # <<>>
                  /\ slide'.sections = <<>>]_vars
\* A successful scan of two slides: a Text section before the heading, an
\* HTML and a Text section after it.
C38_Witness ==
    /\ Succeeded
    /\ Len(result) = 2
    /\ Len(result[1].sections) = 1
    /\ result[1].sections[1].kind = sectionText
    /\ Len(result[2].sections) = 2
    /\ result[2].sections[1].kind = sectionHTML
    /\ result[2].sections[2].kind = sectionText

\* ============================================================ run, the files
\* run over several files.  What scanFile returns for a file is an input: an
\* error, or a list of slides.  The file the indentWriter writes to may fail
\* at one of its Write calls.  The error of outFile.Close, which run joins to
\* its result, is left out.

\* Number of input files.
MaxFiles == 3
\* The Write call of the output file that fails, if one does, is among the
\* first MaxFailAt.
MaxFailAt == 40
FileNames == [i \in 1..MaxFiles |-> <<"f", ToString(i), ".go">>]
\* What scanFile returns: nil slides and an error, or slides and no error.
ScanFailed == [slides |-> <<>>, failed |-> TRUE]
Scanned(ss) == [slides |-> ss, failed |-> FALSE]
ScanOutcomes ==
    {ScanFailed,
     Scanned(<<NewSlide(<<"H">>)>>),
     Scanned(<<[NewSlide(<<"H">>) EXCEPT !.sections = <<Section(sectionHTML, <<"<p>">>)>>],
               NewSlide(<<"G">>)>>)}
FileLists == UNION {[1..n -> ScanOutcomes] : n \in 1..MaxFiles}
\* The calls of the file's Write that fail: none, or one of these.
FailPoints == {{}, {1}, {12}, {20}, {MaxFailAt}}
\* The constants top and bottom, each one symbol of the model.
top == <<"<!DOCTYPE html>...<section class='slides'>", NL>>
bottom == <<NL, "<div id=\"help\">...</html>">>

RunInit ==
    /\ EarlierIdle /\ WGIdle /\ CountIdle
    /\ \E f \in FailPoints, sh \in BOOLEAN :
          iw = [NewWriter EXCEPT !.fails = f, !.short = sh]
    /\ ret = <<>>
    /\ inputs \in FileLists
    /\ nextFile = 0
    /\ run_page = 0
    /\ rpc = "title"
    /\ runErr = <<>>

\* fmt.Fprintf(iw, top, title), the title slide, pageNum := 2
runTitle ==
    /\ rpc = "title"
    /\ iw' = close(linef(open(Write(iw, top), <<"<article class='title-slide'>">>),
                         <<"<div class='title-text'>", "Title", "</div>">>),
                   <<"</article>">>)
    /\ run_page' = FirstPage
    /\ nextFile' = 1
    /\ rpc' = "files"
    /\ UNCHANGED <<ret, inputs, runErr, earlier, besideRun>>

\* Mutant of runFile: the pages of every file are numbered from 2.
runFileRestarts ==
    /\ rpc = "files"
    /\ nextFile <= Len(inputs)
    /\ LET f == inputs[nextFile]
       IN IF f.failed
          THEN /\ run_page' = 0
               /\ runErr' = <<"error processing ">> \o FileNames[nextFile] \o <<": scan">>
               /\ rpc' = "returned"
               /\ UNCHANGED <<iw, nextFile>>
          ELSE /\ \E notes \in BOOLEAN, style \in EmStyles :
                      iw' = processFile(iw, FileNames[nextFile], f.slides, FirstPage,
                                        notes, style)
               /\ run_page' = FirstPage + Len(f.slides)
               /\ IF Err(iw') # <<>>
                  THEN /\ runErr' = <<"error processing ">> \o FileNames[nextFile]
                                    \o <<": write ">> \o <<ToString(Err(iw')[1])>>
                       /\ rpc' = "returned"
                       /\ nextFile' = nextFile
                  ELSE /\ nextFile' = nextFile + 1
                       /\ UNCHANGED <<rpc, runErr>>
    /\ UNCHANGED <<ret, inputs, earlier, besideRun>>

\* One iteration of the loop over the files:
\* pageNum, err = processFile(iw, filename, pageNum).  processFile returns
\* 0 and the error of scanFile, or writes the slides, counting the pages, and
\* returns the page number and w.Err().
runFile ==
    /\ rpc = "files"
    /\ nextFile <= Len(inputs)
    /\ LET f == inputs[nextFile]
       IN IF f.failed
          THEN /\ run_page' = 0
               /\ runErr' = <<"error processing ">> \o FileNames[nextFile] \o <<": scan">>
               /\ rpc' = "returned"
               /\ UNCHANGED <<iw, nextFile>>
          ELSE /\ \E notes \in BOOLEAN, style \in EmStyles :
                      iw' = processFile(iw, FileNames[nextFile], f.slides, run_page,
                                        notes, style)
               /\ run_page' = run_page + Len(f.slides)
               /\ IF Err(iw') # <<>>
                  THEN /\ runErr' = <<"error processing ">> \o FileNames[nextFile]
                                    \o <<": write ">> \o <<ToString(Err(iw')[1])>>
                       /\ rpc' = "returned"
                       /\ nextFile' = nextFile
                  ELSE /\ nextFile' = nextFile + 1
                       /\ UNCHANGED <<rpc, runErr>>
    /\ UNCHANGED <<ret, inputs, earlier, besideRun>>

\* fmt.Fprintln(iw, bottom); return iw.Err()
runBottom ==
    /\ rpc = "files"
    /\ nextFile > Len(inputs)
    /\ iw' = Write(iw, bottom \o <<NL>>)
    /\ runErr' = IF Err(iw') # <<>> THEN <<"write ", ToString(Err(iw')[1])>> ELSE <<>>
    /\ rpc' = "returned"
    /\ UNCHANGED <<ret, inputs, nextFile, run_page, earlier, besideRun>>

RunNext == runTitle \/ runFile \/ runBottom

RunSpec == RunInit /\ [][RunNext]_vars

\* The page numbers written, in order: what stands between the opening and
\* the closing tag of each page number element.
PageNumbers(s) ==
    LET at == {i \in 1..(Len(s) - 1) : s[i] = "<span class='pagenumber'>"}
        nth(k) == CHOOSE i \in at : Cardinality({j \in at : j < i}) = k - 1
    IN [k \in 1..Cardinality(at) |-> s[nth(k) + 1]]
\* The slides of the first n files.
RECURSIVE SlidesBefore(_)
SlidesBefore(n) == IF n <= 0 THEN 0 ELSE Len(inputs[n].slides) + SlidesBefore(n - 1)

\* C39: the page numbers run has written are 2, 3, 4, ... in the order of
\* the slides; between two files, and at the end of a run without error, there
\* is one for every slide of the files processed, and pageNum is the number of
\* the next page; and writeSlideHTML writes the number it is given.
C39_PagesConsecutive ==
    LET nums == PageNumbers(iw.buf)
    IN /\ \A k \in 1..Len(nums) : nums[k] = ToString(k + 1)
       /\ (rpc = "files" \/ (rpc = "returned" /\ runErr = <<>>)) =>
              /\ Len(nums) = SlidesBefore(nextFile - 1)
              /\ run_page = Len(nums) + 2
       /\ (rpc = "returned" /\ runErr = <<>>) => nextFile = Len(inputs) + 1
       /\ \A n \in {2, 7} :
              PageNumbers(writeSlideHTML(NewWriter, NewSlide(<<"H">>), n, FALSE,
                                         "bold").buf) = <<ToString(n)>>
\* run has returned without error after three files of two, one and two
\* slides: the pages 2 to 6 are written.
C39_Witness ==
    /\ rpc = "returned"
    /\ runErr = <<>>
    /\ Len(inputs) = 3
    /\ Len(inputs[1].slides) = 2
    /\ Len(inputs[2].slides) = 1
    /\ Len(inputs[3].slides) = 2
    /\ PageNumbers(iw.buf) = <<"2", "3", "4", "5", "6">>

\* ============================================================ indentWriter
\* The methods of one indentWriter, called in any order.  The file below it
\* fails at the calls in iw.fails; each failure is an error of its own, named
\* by the number of the call.  rpc holds the method called last, ret what the
\* last Write returned.

\* The calls that reach the file are at most MaxWrites.
MaxWrites == 5
\* The level stays within -1..MaxLevel; close on a new writer makes it -1.
MaxLevel == 2
\* The calls of the file that fail are among the first MaxFailCall.
MaxFailCall == 4
WriterData == {<<>>, <<"x", "y">>}
WriterTags == {<<"<t>">>}
Min(S) == CHOOSE x \in S : \A y \in S : x <= y

WriterInit ==
    /\ EarlierIdle /\ WGIdle /\ CountIdle
    /\ \E f \in SUBSET (1..MaxFailCall), sh \in BOOLEAN :
          iw = [NewWriter EXCEPT !.fails = f, !.short = sh]
    /\ ret = <<>>
    /\ inputs = <<>>
    /\ nextFile = 0
    /\ run_page = 0
    /\ rpc = "new"
    /\ runErr = <<>>

wOpen ==
    /\ iw.calls < MaxWrites
    /\ iw.level < MaxLevel
    /\ \E s \in WriterTags : iw' = open(iw, s)
    /\ rpc' = "open"
    /\ UNCHANGED <<ret, inputs, nextFile, run_page, runErr, earlier, besideRun>>

wClose ==
    /\ iw.calls < MaxWrites
    /\ iw.level > -1
    /\ \E s \in WriterTags : iw' = close(iw, s)
    /\ rpc' = "close"
    /\ UNCHANGED <<ret, inputs, nextFile, run_page, runErr, earlier, besideRun>>

wLinef ==
    /\ iw.calls < MaxWrites
    /\ \E s \in WriterTags : iw' = linef(iw, s)
    /\ rpc' = "linef"
    /\ UNCHANGED <<ret, inputs, nextFile, run_page, runErr, earlier, besideRun>>

wWrite ==
    /\ iw.calls < MaxWrites
    /\ \E data \in WriterData :
          /\ iw' = Write(iw, data)
          /\ ret' = WriteReturn(iw, data)
    /\ rpc' = "Write"
    /\ UNCHANGED <<inputs, nextFile, run_page, runErr, earlier, besideRun>>

WriterNext == wOpen \/ wClose \/ wLinef \/ wWrite

WriterSpec == WriterInit /\ [][WriterNext]_vars

\* C40: once err is set, a call of open, close, linef or Write leaves err as
\* it is, passes nothing to the file (the file receives no call and no data),
\* and a Write returns 0 and that error; err is the error of the first call
\* of the file that failed.
C40_ErrorSticky ==
    [][(iw.err # <<>>) =>
          /\ iw'.err = iw.err
          /\ iw'.buf = iw.buf
          /\ iw'.calls = iw.calls
          /\ iw.err = <<Min(iw.fails)>>
          /\ Err(iw') = <<Min(iw.fails)>>
          /\ (rpc' = "Write" => ret' = <<0, iw.err>>)]_vars
\* The second call of the file failed within open, the third would fail too;
\* a Write after it returned 0 and the error of the second call.
C40_Witness ==
    /\ iw.fails = {2, 3}
    /\ ~iw.short
    /\ iw.err = <<2>>
    /\ iw.calls = 2
    /\ iw.level = 1
    /\ iw.buf = <<"<t>">>
    /\ rpc = "Write"
    /\ ret = <<0, <<2>>>>

====
